---- MODULE Spec2Model ----
(***************************************************************************)
(* EchoNext (src/echonext.go): typed handlers over Echo, request binding   *)
(* and validation, response normalisation and OpenAPI schema derivation.   *)
(*                                                                         *)
(* Go strings that the code inspects (struct tags, raw query/path values)  *)
(* are modelled as sequences of one-character strings so that              *)
(* strings.Split / Contains / HasPrefix / TrimPrefix and strconv.Atoi are  *)
(* computed, not assumed.                                                  *)
(***************************************************************************)
EXTENDS Integers, Sequences, FiniteSets, TLC

(***************************************************************************)
(* Bounds of the model                                                     *)
(***************************************************************************)
\* routes registered on one App that serves requests
MaxRoutes == 1
\* routes registered on one App that assembles its document
MaxDocRoutes == 2
\* requests served by one App
MaxServed == 1
\* depth of the goroutine stack, in generateSchema frames
MaxStack == 6
\* goroutines serving requests at the same time
MaxGoroutines == 2
\* routes registered after the application has started to serve
MaxLateRoutes == 1

(***************************************************************************)
(* Go string primitives                                                    *)
(***************************************************************************)
Digits == <<"0", "1", "2", "3", "4", "5", "6", "7", "8", "9">>

IsDigit(c) == \E i \in 1..10 : Digits[i] = c

DigitVal(c) == (CHOOSE i \in 1..10 : Digits[i] = c) - 1

\* strings.HasPrefix
HasPrefix(s, p) == Len(s) >= Len(p) /\ SubSeq(s, 1, Len(p)) = p

\* strings.TrimPrefix
TrimPrefix(s, p) == IF HasPrefix(s, p) THEN SubSeq(s, Len(p) + 1, Len(s)) ELSE s

\* strings.Contains
Contains(s, sub) ==
    \E i \in 1..(Len(s) + 1) :
        i + Len(sub) - 1 <= Len(s) /\ SubSeq(s, i, i + Len(sub) - 1) = sub

\* strings.Split(s, sep) for a one-character separator; Split("", sep) is [""]
RECURSIVE Split(_, _)
Split(s, sep) ==
    IF \E i \in 1..Len(s) : s[i] = sep
    THEN LET i == CHOOSE k \in 1..Len(s) :
                      s[k] = sep /\ \A j \in 1..(k - 1) : s[j] # sep
         IN  <<SubSeq(s, 1, i - 1)>> \o Split(SubSeq(s, i + 1, Len(s)), sep)
    ELSE <<s>>

RECURSIVE DigitsValue(_)
DigitsValue(s) ==
    IF s = <<>> THEN 0
    ELSE 10 * DigitsValue(SubSeq(s, 1, Len(s) - 1)) + DigitVal(s[Len(s)])

AllDigits(s) == s # <<>> /\ \A i \in 1..Len(s) : IsDigit(s[i])

\* strconv.Atoi / strconv.ParseInt(s, 10, _): optional sign, then digits
ParseDigits(neg, body) ==
    IF AllDigits(body)
    THEN [ok |-> TRUE, v |-> IF neg THEN 0 - DigitsValue(body) ELSE DigitsValue(body)]
    ELSE [ok |-> FALSE, v |-> 0]

Atoi(s) ==
    ParseDigits(s # <<>> /\ s[1] = "-",
                IF s # <<>> /\ s[1] \in {"+", "-"} THEN Tail(s) ELSE s)

\* strconv.ParseFloat(s, 64) on decimal literals: sign, digits, optional
\* fraction.  The value is kept as whole part and fraction digits.
ParseFloat(s) ==
    LET signed == s # <<>> /\ s[1] \in {"+", "-"}
        neg    == signed /\ s[1] = "-"
        body   == IF signed THEN SubSeq(s, 2, Len(s)) ELSE s
        parts  == Split(body, ".")
        whole  == parts[1]
        frac   == IF Len(parts) = 2 THEN parts[2] ELSE <<>>
        wellFormed ==
            /\ Len(parts) <= 2
            /\ \A i \in 1..Len(whole) : IsDigit(whole[i])
            /\ \A i \in 1..Len(frac) : IsDigit(frac[i])
            /\ Len(whole) + Len(frac) > 0
    IN  IF wellFormed
        THEN [ok |-> TRUE, neg |-> neg, whole |-> DigitsValue(whole), frac |-> frac]
        ELSE [ok |-> FALSE, neg |-> FALSE, whole |-> 0, frac |-> <<>>]

\* uint64(n) for an int n: the value modulo 2^64, kept as four 16-bit limbs
\* (most significant first)
Limb == 65536

Limbs(k) == <<0, 0, (k \div Limb) % Limb, k % Limb>>

Uint64(n) ==
    IF n >= 0
    THEN Limbs(n)
    ELSE [i \in 1..4 |-> (Limb - 1) - Limbs((0 - n) - 1)[i]]

(***************************************************************************)
(* Go types (reflect.Type) of handler arguments and results                *)
(***************************************************************************)
\* the struct tag strings used by the types below
TagNone == <<>>

JsonTags ==
    { TagNone, <<"-">>, <<"f">>, <<"f", ",", "o", "m", "i", "t", "e", "m", "p", "t", "y">>, <<",", "o", "m", "i", "t", "e", "m", "p", "t", "y">>, <<"f", ",", "s", "t", "r", "i", "n", "g">> }

ValidateTags ==
    { TagNone, <<"r", "e", "q", "u", "i", "r", "e", "d">>, <<"r", "e", "q", "u", "i", "r", "e", "d", ",", "m", "i", "n", "=", "2">>, <<"m", "i", "n", "=", "1", ",", "m", "a", "x", "=", "9">>, <<"e", "m", "a", "i", "l">>,
      <<"o", "m", "i", "t", "e", "m", "p", "t", "y", ",", "m", "i", "n", "=", "3">>, <<"o", "n", "e", "o", "f", "=", "a", " ", "b">>, <<"o", "n", "e", "o", "f", "=", "r", "e", "q", "u", "i", "r", "e", "d", " ", "o", "p", "t">>, <<"m", "i", "n", "=", "x">>,
      <<"m", "a", "x", "=", "-", "1">>, <<"r", "e", "q", "u", "i", "r", "e", "d", ",", "e", "m", "a", "i", "l">>,
      <<"m", "a", "x", "=", "x">>, <<"m", "i", "n", "=", "0">>, <<"m", "a", "x", "=", "0">> }

ProbeTypes == { "string", "int", "float64", "bool", "[]string", "*int" }

VARIABLES
    tagJSON,        \* json tag of Probe.F
    tagValidate,    \* validate tag of Probe.F
    tagType         \* type of Probe.F

Field(name, type, json, validate, query, param) ==
    [Name |-> name, Type |-> type, json |-> json, validate |-> validate,
     query |-> query, param |-> param, example |-> TagNone]

Scalar(kind, name) == [Kind |-> kind, Elem |-> "", Fields |-> <<>>, String |-> name]

Wrapper(kind, elem, name) == [Kind |-> kind, Elem |-> elem, Fields |-> <<>>, String |-> name]

Struct(name, fields) == [Kind |-> "Struct", Elem |-> "", Fields |-> fields, String |-> name]

\* reflect.TypeOf for the named types of the model: Kind(), Elem(), Field(i)
TypeDef(t) ==
    CASE t = "string"  -> Scalar("String", t)
      [] t = "int"     -> Scalar("Int", t)
      [] t = "uint8"   -> Scalar("Uint8", t)
      [] t = "float64" -> Scalar("Float64", t)
      [] t = "bool"    -> Scalar("Bool", t)
      [] t = "error"   -> Scalar("Interface", t)
      [] t = "time.Time" -> Struct(t, <<>>)
      [] t = "*int"    -> Wrapper("Ptr", "int", t)
      [] t = "[]string" -> Wrapper("Slice", "string", t)
      [] t = "[]Item"  -> Wrapper("Slice", "Item", t)
      [] t = "map[string]int" -> Wrapper("Map", "int", t)
      [] t = "Item"    -> Struct(t,
            << Field(<<"I", "D">>, "int", <<"i", "d">>, TagNone, TagNone, TagNone),
               Field(<<"N", "a", "m", "e">>, "string", <<"n", "a", "m", "e">>, TagNone, TagNone, TagNone),
               Field(<<"C", "r", "e", "a", "t", "e", "d", "A", "t">>, "time.Time", <<"c", "r", "e", "a", "t", "e", "d", "_", "a", "t">>, TagNone, TagNone, TagNone) >>)
      [] t = "ItemReq" -> Struct(t,
            << Field(<<"I", "D">>, "int", <<"i", "d">>, <<"m", "i", "n", "=", "1">>, <<"i", "d">>, <<"i", "d">>),
               Field(<<"N", "a", "m", "e">>, "string", <<"n", "a", "m", "e">>, <<"r", "e", "q", "u", "i", "r", "e", "d", ",", "m", "i", "n", "=", "2">>, <<"n", "a", "m", "e">>, TagNone) >>)
      [] t = "SearchReq" -> Struct(t,
            << Field(<<"Q">>, "string", <<"q">>, <<"r", "e", "q", "u", "i", "r", "e", "d">>, <<"q">>, TagNone),
               Field(<<"S", "o", "r", "t">>, "string", <<"s", "o", "r", "t">>,
                     <<"o", "m", "i", "t", "e", "m", "p", "t", "y", ",", "o", "n", "e", "o", "f", "=", "r", "e", "q", "u", "i", "r", "e", "d", " ", "o", "p", "t", "i", "o", "n", "a", "l">>, <<"s", "o", "r", "t">>, TagNone),
               Field(<<"T", "r", "a", "c", "e">>, "string", <<"t", "r", "a", "c", "e">>, TagNone, TagNone, TagNone),
               Field(<<"P", "a", "g", "e">>, "int", <<"p", "a", "g", "e">>, TagNone, <<"-">>, TagNone) >>)
      [] t = "Probe"   -> Struct(t,
            << Field(<<"F">>, tagType, tagJSON, tagValidate, TagNone, TagNone),
               Field(<<"O", "t", "h", "e", "r">>, "string", <<"o", "t", "h", "e", "r">>, <<"r", "e", "q", "u", "i", "r", "e", "d">>, TagNone, TagNone) >>)
      [] t = "Node"    -> Struct(t,
            << Field(<<"V", "a", "l", "u", "e">>, "int", <<"v", "a", "l", "u", "e">>, TagNone, TagNone, TagNone),
               Field(<<"N", "e", "x", "t">>, "*Node", <<"n", "e", "x", "t", ",", "o", "m", "i", "t", "e", "m", "p", "t", "y">>, TagNone, TagNone, TagNone) >>)
      [] t = "*Node"   -> Wrapper("Ptr", "Node", t)
      [] t = "Tree"    -> Struct(t,
            << Field(<<"C", "h", "i", "l", "d", "r", "e", "n">>, "[]Tree", <<"c", "h", "i", "l", "d", "r", "e", "n">>, TagNone, TagNone, TagNone) >>)
      [] t = "[]Tree"  -> Wrapper("Slice", "Tree", t)
      [] t = "Graph"   -> Struct(t,
            << Field(<<"E", "d", "g", "e", "s">>, "map[string]Graph", <<"e", "d", "g", "e", "s">>, TagNone, TagNone, TagNone) >>)
      [] t = "map[string]Graph" -> Wrapper("Map", "Graph", t)

\* types whose definition does not reach itself
AcyclicTypes ==
    { "string", "int", "uint8", "float64", "bool", "time.Time", "*int",
      "[]string", "[]Item", "map[string]int", "Item", "ItemReq", "SearchReq",
      "Probe" }

\* types that refer to themselves through a pointer, slice or map field
CyclicTypes == { "Node", "*Node", "Tree", "[]Tree", "Graph", "map[string]Graph" }

(***************************************************************************)
(* generateSchema  (src/echonext.go 628-749)                               *)
(***************************************************************************)
\* &openapi3.Schema{}: every field at its Go zero value.  Pointer and
\* reference fields are sequences of length 0 (nil) or 1.
Schema ==
    [Type |-> "", Format |-> "", Items |-> <<>>, AdditionalProperties |-> <<>>,
     Properties |-> <<>>, Required |-> <<>>, MinLength |-> Uint64(0),
     MaxLength |-> <<>>, Min |-> <<>>, Max |-> <<>>, Enum |-> <<>>,
     Example |-> <<>>, Default |-> <<>>]

\* lines 673-683: the property name and the omitempty flag from the json tag
FieldName(field) ==
    IF field.json # <<>> THEN Split(field.json, ",")[1] ELSE field.Name

Omitempty(field) ==
    /\ field.json # <<>>
    /\ LET parts == Split(field.json, ",")
       IN  \E i \in 2..Len(parts) : parts[i] = <<"o", "m", "i", "t", "e", "m", "p", "t", "y">>

\* line 694: whether the field name is appended to schema.Required
AppendsRequired(field) ==
    /\ field.validate # <<>>
    /\ Contains(field.validate, <<"r", "e", "q", "u", "i", "r", "e", "d">>)
    /\ ~Omitempty(field)

\* lines 701-713 without the tests of fieldSchema.Type at 703 and 707
ApplyMin_Ungated(fs, v) ==
    LET val == TrimPrefix(v, <<"m", "i", "n", "=">>) IN
    IF HasPrefix(v, <<"m", "i", "n", "=">>) /\ val # <<>> /\ Atoi(val).ok
    THEN [fs EXCEPT !.MinLength = Uint64(Atoi(val).v)]
    ELSE fs

\* lines 701-713 with the results of lines 704 and 708 used whatever err is
ApplyMin_DefaultZero(fs, v) ==
    LET val == TrimPrefix(v, <<"m", "i", "n", "=">>) IN
    IF HasPrefix(v, <<"m", "i", "n", "=">>) /\ val # <<>>
    THEN IF fs.Type = "string"
         THEN [fs EXCEPT !.MinLength = Uint64(Atoi(val).v)]
         ELSE IF fs.Type \in {"integer", "number"}
              THEN [fs EXCEPT !.Min = <<ParseFloat(val)>>]
              ELSE fs
    ELSE fs

\* lines 701-713
ApplyMin(fs, v) ==
    LET val == TrimPrefix(v, <<"m", "i", "n", "=">>) IN
    IF HasPrefix(v, <<"m", "i", "n", "=">>) /\ val # <<>>
    THEN IF fs.Type = "string"
         THEN IF Atoi(val).ok
              THEN [fs EXCEPT !.MinLength = Uint64(Atoi(val).v)]
              ELSE fs
         ELSE IF fs.Type \in {"integer", "number"}
              THEN IF ParseFloat(val).ok
                   THEN [fs EXCEPT !.Min = <<ParseFloat(val)>>]
                   ELSE fs
              ELSE fs
    ELSE fs

\* lines 714-727
ApplyMax(fs, v) ==
    LET val == TrimPrefix(v, <<"m", "a", "x", "=">>) IN
    IF HasPrefix(v, <<"m", "a", "x", "=">>) /\ val # <<>>
    THEN IF fs.Type = "string"
         THEN IF Atoi(val).ok
              THEN [fs EXCEPT !.MaxLength = <<Uint64(Atoi(val).v)>>]
              ELSE fs
         ELSE IF fs.Type \in {"integer", "number"}
              THEN IF ParseFloat(val).ok
                   THEN [fs EXCEPT !.Max = <<ParseFloat(val)>>]
                   ELSE fs
              ELSE fs
    ELSE fs

\* lines 728-730
ApplyEmail(fs, v) == IF v = <<"e", "m", "a", "i", "l">> THEN [fs EXCEPT !.Format = "email"] ELSE fs

\* lines 731-738
ApplyOneof(fs, v) ==
    IF HasPrefix(v, <<"o", "n", "e", "o", "f", "=">>)
    THEN [fs EXCEPT !.Enum = Split(TrimPrefix(v, <<"o", "n", "e", "o", "f", "=">>), " ")]
    ELSE fs

\* lines 700-739: the loop over the comma-separated validations
RECURSIVE ApplyValidations(_, _)
ApplyValidations(fs, validations) ==
    IF validations = <<>> THEN fs
    ELSE ApplyValidations(
             ApplyOneof(ApplyEmail(ApplyMax(ApplyMin(fs, Head(validations)),
                                            Head(validations)),
                                   Head(validations)),
                        Head(validations)),
             Tail(validations))

\* lines 687-740: example and validation tags applied to the field's schema
FieldSchema(field, derived) ==
    LET withExample == IF field.example # <<>>
                       THEN [derived EXCEPT !.Example = <<field.example>>]
                       ELSE derived
    IN  IF field.validate # <<>>
        THEN ApplyValidations(withExample, Split(field.validate, ","))
        ELSE withExample

\* lines 673-742: one iteration of the loop over the struct's fields (for a
\* field whose json tag is not "-"), given the schema generateSchema returned
\* for the field's type
AddField(schema, field, derived) ==
    [schema EXCEPT
        !.Required = IF AppendsRequired(field)
                     THEN Append(@, FieldName(field)) ELSE @,
        !.Properties = (FieldName(field) :> FieldSchema(field, derived)) @@ @]

\* lines 629-631
Deref(t) == IF TypeDef(t).Kind = "Ptr" THEN TypeDef(t).Elem ELSE t

\* lines 633-748 for the kinds that make no recursive call
LeafSchema(t) ==
    LET k == TypeDef(t).Kind IN
    CASE k = "String"  -> [Schema EXCEPT !.Type = "string"]
      [] k = "Int"     -> [Schema EXCEPT !.Type = "integer"]
      [] k = "Float64" -> [Schema EXCEPT !.Type = "number"]
      [] k = "Bool"    -> [Schema EXCEPT !.Type = "boolean"]
      [] k = "Struct" /\ TypeDef(t).String = "time.Time"
                       -> [Schema EXCEPT !.Type = "string", !.Format = "date-time"]
      [] OTHER         -> [Schema EXCEPT !.Type = "object"]

IsLeaf(t) ==
    \/ TypeDef(t).Kind \notin {"Slice", "Map", "Struct"}
    \/ TypeDef(t).String = "time.Time"

RECURSIVE generateSchema(_)
RECURSIVE StructSchema(_, _, _)
\* lines 660-745: the struct case from field i on
StructSchema(t, i, schema) ==
    IF i > Len(TypeDef(t).Fields) THEN schema
    ELSE LET field == TypeDef(t).Fields[i] IN
         StructSchema(t, i + 1,
             IF field.json = <<"-">> THEN schema
             ELSE AddField(schema, field, generateSchema(field.Type)))

generateSchema(t0) ==
    LET t == Deref(t0) IN
    IF IsLeaf(t) THEN LeafSchema(t)
    ELSE CASE TypeDef(t).Kind = "Slice" ->
                [Schema EXCEPT !.Type = "array",
                               !.Items = <<generateSchema(TypeDef(t).Elem)>>]
           [] TypeDef(t).Kind = "Map" ->
                [Schema EXCEPT !.Type = "object",
                               !.AdditionalProperties = <<generateSchema(TypeDef(t).Elem)>>]
           [] TypeDef(t).Kind = "Struct" ->
                StructSchema(t, 1, [Schema EXCEPT !.Type = "object"])


(***************************************************************************)
(* The recursion of generateSchema as the goroutine executes it: one frame *)
(* per active call.  generateSchema keeps no record of the types it is     *)
(* already deriving.                                                       *)
(***************************************************************************)
VARIABLES
    dtype,      \* the type generateSchema was called with
    stack,      \* active generateSchema calls, innermost last
    dret,       \* value returned by the call that just ended: <<>> or <<schema>>
    dstatus,    \* "idle", "run", "done" or "overflow"
    dresult     \* the schema returned to the caller: <<>> or <<schema>>

derVars == <<tagJSON, tagValidate, tagType, dtype, stack, dret, dstatus, dresult>>

\* the state of the application: App (lines 17-22) and the requests served
VARIABLES
    routes,     \* app.routes: the registered RouteInfo values, in order
    router,     \* Echo's route table: <<method, path>> -> index of the
                \* registration whose wrapped handler serves it
    crashed,    \* a registration panicked
    calls,      \* per registration, how often its handler body has run
    served,     \* requests served so far
    last,       \* the request served last, with what happened to it
    paths,      \* app.spec.Paths: OpenAPI path -> path item
    gor,        \* the goroutines serving requests, each with its locals
    heap        \* the request instances allocated by reflect.New

reqVars == <<routes, router, crashed, calls, served, last, paths, gor, heap>>

vars == <<tagJSON, tagValidate, tagType, dtype, stack, dret, dstatus, dresult,
          routes, router, crashed, calls, served, last, paths, gor, heap>>

Frame(t0) ==
    [t |-> Deref(t0), i |-> 1,
     schema |-> CASE TypeDef(Deref(t0)).Kind = "Slice" -> [Schema EXCEPT !.Type = "array"]
                  [] OTHER -> [Schema EXCEPT !.Type = "object"]]

Top == stack[Len(stack)]

Pop == SubSeq(stack, 1, Len(stack) - 1)

\* the type the top frame must derive next, if any: the element type of a
\* slice or map (lines 645, 651), the type of the current field (line 685)
NextChild(f) ==
    CASE TypeDef(f.t).Kind \in {"Slice", "Map"} ->
            IF f.i = 1 THEN <<TypeDef(f.t).Elem>> ELSE <<>>
      [] TypeDef(f.t).Kind = "Struct" ->
            IF f.i <= Len(TypeDef(f.t).Fields) /\ TypeDef(f.t).Fields[f.i].json # <<"-">>
            THEN <<TypeDef(f.t).Fields[f.i].Type>> ELSE <<>>

\* lines 634-641, 656-658, 746-748: a call that returns without recursing
DeriveLeaf ==
    /\ dstatus = "run" /\ stack # <<>> /\ dret = <<>>
    /\ IsLeaf(Top.t)
    /\ dret' = <<LeafSchema(Top.t)>>
    /\ stack' = Pop
    /\ UNCHANGED <<tagJSON, tagValidate, tagType, dtype, dstatus, dresult>>
    /\ UNCHANGED reqVars

\* lines 645, 651, 685: the recursive call; the Go runtime ends the process
\* when the goroutine stack is exhausted
DeriveCall ==
    /\ dstatus = "run" /\ stack # <<>> /\ dret = <<>>
    /\ ~IsLeaf(Top.t)
    /\ NextChild(Top) # <<>>
    /\ IF Len(stack) < MaxStack
       THEN /\ stack' = Append(stack, Frame(NextChild(Top)[1]))
            /\ UNCHANGED dstatus
       ELSE /\ dstatus' = "overflow"
            /\ UNCHANGED stack
    /\ UNCHANGED <<tagJSON, tagValidate, tagType, dtype, dret, dresult>>
    /\ UNCHANGED reqVars

\* lines 669-671: a field tagged json:"-" is skipped
DeriveSkip ==
    /\ dstatus = "run" /\ stack # <<>> /\ dret = <<>>
    /\ TypeDef(Top.t).Kind = "Struct" /\ ~IsLeaf(Top.t)
    /\ Top.i <= Len(TypeDef(Top.t).Fields)
    /\ TypeDef(Top.t).Fields[Top.i].json = <<"-">>
    /\ stack' = [stack EXCEPT ![Len(stack)].i = @ + 1]
    /\ UNCHANGED <<tagJSON, tagValidate, tagType, dtype, dret, dstatus, dresult>>
    /\ UNCHANGED reqVars

\* the recursive call returned: lines 645, 651 wrap the element schema,
\* lines 687-742 finish the field
DeriveResume ==
    /\ dstatus = "run" /\ stack # <<>> /\ dret # <<>>
    /\ LET f == Top
           k == TypeDef(f.t).Kind
           s == CASE k = "Slice"  -> [f.schema EXCEPT !.Items = dret]
                  [] k = "Map"    -> [f.schema EXCEPT !.AdditionalProperties = dret]
                  [] k = "Struct" -> AddField(f.schema, TypeDef(f.t).Fields[f.i], dret[1])
       IN  stack' = [stack EXCEPT ![Len(stack)] = [f EXCEPT !.i = @ + 1, !.schema = s]]
    /\ dret' = <<>>
    /\ UNCHANGED <<tagJSON, tagValidate, tagType, dtype, dstatus, dresult>>
    /\ UNCHANGED reqVars

\* lines 643, 648, 745: a slice, map or struct call returns its schema
DeriveReturn ==
    /\ dstatus = "run" /\ stack # <<>> /\ dret = <<>>
    /\ ~IsLeaf(Top.t)
    /\ NextChild(Top) = <<>>
    /\ \/ TypeDef(Top.t).Kind \in {"Slice", "Map"}
       \/ Top.i > Len(TypeDef(Top.t).Fields)
    /\ dret' = <<Top.schema>>
    /\ stack' = Pop
    /\ UNCHANGED <<tagJSON, tagValidate, tagType, dtype, dstatus, dresult>>
    /\ UNCHANGED reqVars

\* the outermost call returns, having stored the schema in the document
DeriveDone_Recording ==
    /\ dstatus = "run" /\ stack = <<>> /\ dret # <<>>
    /\ dstatus' = "done"
    /\ dresult' = dret
    /\ dret' = <<>>
    /\ paths' = (<<dtype>> :> dret[1]) @@ paths
    /\ UNCHANGED <<tagJSON, tagValidate, tagType, dtype, stack>>
    /\ UNCHANGED <<routes, router, crashed, calls, served, last, gor, heap>>

\* the outermost call returns to the caller of generateSchema
DeriveDone ==
    /\ dstatus = "run" /\ stack = <<>> /\ dret # <<>>
    /\ dstatus' = "done"
    /\ dresult' = dret
    /\ dret' = <<>>
    /\ UNCHANGED <<tagJSON, tagValidate, tagType, dtype, stack>>
    /\ UNCHANGED reqVars

\* lines 446, 487, 619: generateSchema is called again for a type it has
\* derived; dresult keeps the schema of the earlier call until this one
\* returns
DeriveAgain ==
    /\ dstatus = "done" /\ stack = <<>> /\ dret = <<>>
    /\ dstatus' = "run"
    /\ stack' = <<Frame(dtype)>>
    /\ UNCHANGED <<tagJSON, tagValidate, tagType, dtype, dret, dresult>>
    /\ UNCHANGED reqVars


(***************************************************************************)
(* Handlers, routes and the registry  (src/echonext.go 17-48, 209-258)     *)
(***************************************************************************)
\* a handler value as reflect sees it: Kind() == Func, In(i), Out(i)
Handler(name, in, out) == [Name |-> name, IsFunc |-> TRUE, In |-> in, Out |-> out]

NotAFunc == [Name |-> "notAFunc", IsFunc |-> FALSE, In |-> <<>>, Out |-> <<>>]

\* Route: the options of a registration
Route(summary, tags, status) ==
    [Summary |-> summary, Description |-> "", Tags |-> tags, SuccessStatus |-> status,
     Security |-> <<>>]

\* Security (lines 50-56)
Security(type, name) == [Type |-> type, Name |-> name, Scheme |-> "", In |-> ""]

\* Route with security requirements
SecuredRoute(summary, tags, status, security) ==
    [Route(summary, tags, status) EXCEPT !.Security = security]

Op(method, path, handler, opts) ==
    [method |-> method, path |-> path, handler |-> handler, opts |-> opts]

\* the registrations an application of the model may perform
Catalogue ==
    { Op("POST", <<"/", "i", "t", "e", "m", "s", "/", ":", "i", "d">>,
         Handler("createItem", <<"echo.Context", "ItemReq">>, <<"Item", "error">>),
         <<Route("Create item", <<"Items">>, 201)>>),
      Op("GET", <<"/", "i", "t", "e", "m", "s", "/", ":", "i", "d">>,
         Handler("listItems", <<"echo.Context", "ItemReq">>, <<"[]Item", "error">>),
         <<>>),
      Op("PUT", <<"/", "i", "t", "e", "m", "s", "/", ":", "i", "d">>,
         Handler("countItems", <<"echo.Context", "ItemReq">>, <<"int", "error">>),
         <<Route("Update item", <<"Items">>, 0)>>),
      Op("PATCH", <<"/", "i", "t", "e", "m", "s", "/", ":", "i", "d">>,
         Handler("patchItem", <<"echo.Context", "ItemReq">>, <<"map[string]int", "error">>),
         <<Route("Patch item", <<"Items">>, 202)>>),
      Op("DELETE", <<"/", "i", "t", "e", "m", "s", "/", ":", "i", "d">>,
         Handler("deleteItem", <<"echo.Context">>, <<"error">>),
         <<Route("Delete item", <<"Items">>, 0)>>),
      Op("DELETE", <<"/", "i", "t", "e", "m", "s">>,
         Handler("purgeItems", <<"echo.Context", "ItemReq">>, <<"string", "error">>),
         <<>>),
      Op("GET", <<"/", "h", "e", "a", "l", "t", "h">>,
         Handler("healthCheck", <<"echo.Context">>, <<"map[string]int", "error">>),
         <<Route("Health check", <<"System">>, 201)>>),
      Op("GET", <<"/", "b", "a", "d">>, NotAFunc, <<>>) }

\* lines 216-239: the RouteInfo recorded for a registration
RouteInfoOf(method, path, handler, opts) ==
    [Method |-> method, Path |-> path, Handler |-> handler,
     Summary |-> IF Len(opts) > 0 THEN opts[1].Summary ELSE "",
     Description |-> IF Len(opts) > 0 THEN opts[1].Description ELSE "",
     Tags |-> IF Len(opts) > 0 THEN opts[1].Tags ELSE <<>>,
     RequestType |-> IF Len(handler.In) > 1 THEN <<handler.In[2]>> ELSE <<>>,
     ResponseType |-> IF Len(handler.Out) > 0 THEN <<handler.Out[1]>> ELSE <<>>,
     RouteConfig |-> IF Len(opts) > 0 THEN <<opts[1]>> ELSE <<>>]

\* lines 246-257: app.Echo.GET/POST/PUT/PATCH/DELETE(path, echoHandler); a
\* handler added for a method and path that have one replaces it
EchoAdd(table, method, path, r) == (<<method, path>> :> r) @@ table

\* the route table Echo holds after the registrations rs, from r on
RECURSIVE RouteTableFrom(_, _, _)
RouteTableFrom(table, rs, r) ==
    IF r > Len(rs) THEN table
    ELSE RouteTableFrom(EchoAdd(table, rs[r].Method, rs[r].Path, r), rs, r + 1)

\* lines 209-258 without the test of handlerType.Kind() at 211
registerRoute_NoPanic(method, path, handler, opts) ==
    /\ ~crashed
    /\ routes' = Append(routes, RouteInfoOf(method, path, handler, opts))
    /\ router' = EchoAdd(router, method, path, Len(routes) + 1)
    /\ calls' = Append(calls, 0)
    /\ UNCHANGED <<crashed, served, last>>

\* lines 209-258 with the new RouteInfo put before the recorded ones
registerRoute_Prepend(method, path, handler, opts) ==
    /\ ~crashed
    /\ IF ~handler.IsFunc
       THEN /\ crashed' = TRUE
            /\ UNCHANGED <<routes, router, calls>>
       ELSE /\ routes' = <<RouteInfoOf(method, path, handler, opts)>> \o routes
            /\ router' = EchoAdd(router, method, path, Len(routes) + 1)
            /\ calls' = Append(calls, 0)
            /\ UNCHANGED crashed
    /\ UNCHANGED <<served, last>>

\* lines 209-258
registerRoute(method, path, handler, opts) ==
    /\ ~crashed
    /\ IF ~handler.IsFunc
       THEN /\ crashed' = TRUE
            /\ UNCHANGED <<routes, router, calls>>
       ELSE /\ routes' = Append(routes, RouteInfoOf(method, path, handler, opts))
            /\ router' = EchoAdd(router, method, path, Len(routes) + 1)
            /\ calls' = Append(calls, 0)
            /\ UNCHANGED crashed
    /\ UNCHANGED <<served, last>>

\* lines 183-206: GET, POST, PUT, PATCH, DELETE
Register ==
    /\ \E op \in Catalogue :
          /\ Len(routes) < MaxRoutes \/ ~op.handler.IsFunc
          /\ registerRoute(op.method, op.path, op.handler, op.opts)
    /\ UNCHANGED <<paths, gor, heap>>
    /\ UNCHANGED derVars


(***************************************************************************)
(* Go values of request instances and handler results                      *)
(***************************************************************************)
Nil == [kind |-> "nil", code |-> 0, msg |-> ""]

\* echo.NewHTTPError(code, msg)
HTTPError(code, msg) == [kind |-> "http", code |-> code, msg |-> msg]

\* errors.New(msg)
PlainError(msg) == [kind |-> "plain", code |-> 0, msg |-> msg]

Val(k, n, str, isNil, elems, err) ==
    [k |-> k, n |-> n, s |-> str, isNil |-> isNil, elems |-> elems, err |-> err]

IntVal(n) == Val("int", n, <<>>, FALSE, <<>>, Nil)

StrVal(str) == Val("string", 0, str, FALSE, <<>>, Nil)

\* a struct value: its field values in declaration order
StructVal(fields) == Val("struct", 0, <<>>, FALSE, fields, Nil)

\* a slice or map value: nil, or allocated with the given elements
SliceVal(isNil, elems) == Val("slice", 0, <<>>, isNil, elems, Nil)

MapVal(isNil, elems) == Val("map", 0, <<>>, isNil, elems, Nil)

\* a value of interface type error
ErrVal(err) == Val("error", 0, <<>>, err.kind = "nil", <<>>, err)

\* reflect.Zero(t) for the types instances and results are made of
ZeroOfKind(kind, fields) ==
    CASE kind = "Int"    -> IntVal(0)
      [] kind = "String" -> StrVal(<<>>)
      [] kind = "Slice"  -> SliceVal(TRUE, <<>>)
      [] kind = "Map"    -> MapVal(TRUE, <<>>)
      [] kind = "Interface" -> ErrVal(Nil)
      [] kind = "Struct" ->
            StructVal([i \in 1..Len(fields) |->
                         IF fields[i].Type = "int" THEN IntVal(0) ELSE StrVal(<<>>)])

ZeroOf(t) == ZeroOfKind(TypeDef(t).Kind, TypeDef(t).Fields)

\* reflect.Value.IsZero
IsZero(v) ==
    CASE v.k = "int"    -> v.n = 0
      [] v.k = "string" -> v.s = <<>>
      [] v.k = "struct" ->
            \A i \in 1..Len(v.elems) :
                IF v.elems[i].k = "int" THEN v.elems[i].n = 0 ELSE v.elems[i].s = <<>>
      [] v.k \in {"slice", "map"} -> v.isNil
      [] v.k = "error"  -> v.err.kind = "nil"

\* the values a handler of the model may return for a result type
ResultValues(t) ==
    CASE t = "int"    -> { IntVal(0), IntVal(7) }
      [] t = "string" -> { StrVal(<<>>), StrVal(<<"o", "k">>) }
      [] t = "Item"   -> { ZeroOf("Item"),
                           StructVal(<<IntVal(1), StrVal(<<"a">>), StrVal(<<>>)>>) }
      [] t = "[]Item" -> { SliceVal(TRUE, <<>>), SliceVal(FALSE, <<>>),
                           SliceVal(FALSE, <<ZeroOf("Item")>>) }
      [] t = "map[string]int" -> { MapVal(TRUE, <<>>), MapVal(FALSE, <<>>),
                                   MapVal(FALSE, <<IntVal(1)>>) }
      [] t = "error"  -> { ErrVal(Nil), ErrVal(HTTPError(404, "not found")),
                           ErrVal(PlainError("boom")) }

\* everything a call of the handler may return: one value per result
RECURSIVE Returns(_)
Returns(out) ==
    IF out = <<>> THEN { <<>> }
    ELSE { <<v>> \o rest : v \in ResultValues(Head(out)), rest \in Returns(Tail(out)) }

(***************************************************************************)
(* Requests                                                                *)
(***************************************************************************)
Absent == <<>>

Given(x) == <<x>>

\* raw values of a path variable
ParamOK == <<"7">>

ParamRaw == { ParamOK, <<"0">>, <<"x">> }

\* query strings: each parameter absent or given with a raw value
QueryNone == [id |-> Absent, name |-> Absent]

QueryFull == [id |-> Given(<<"5">>), name |-> Given(<<"z", "z">>)]

Queries ==
    { QueryNone, QueryFull,
      [id |-> Given(<<"x">>), name |-> Given(<<"z", "z">>)],
      [id |-> Absent, name |-> Given(<<"z", "z">>)] }

JNumber(n) == [t |-> "number", n |-> n, s |-> <<>>]

JString(str) == [t |-> "string", n |-> 0, s |-> str]

\* request bodies: none (Content-Length 0), not JSON, or a JSON object
BodyNone == [kind |-> "none", id |-> Absent, name |-> Absent]

BodyFull == [kind |-> "json", id |-> Given(JNumber(3)), name |-> Given(JString(<<"b", "o", "b">>))]

Bodies ==
    { BodyNone, BodyFull,
      [kind |-> "malformed", id |-> Absent, name |-> Absent],
      [kind |-> "json", id |-> Given(JString(<<"x">>)), name |-> Given(JString(<<"b", "o", "b">>))],
      [kind |-> "json", id |-> Absent, name |-> Given(JString(<<"b", "o", "b">>))],
      [kind |-> "json", id |-> Given(JNumber(3)), name |-> Given(JString(<<"b">>))] }

\* the requests of the model: every query string without a body, every
\* body without a query string, both together, and every raw path value
\* with a query string, with and without a body
Inputs ==
    { [query |-> q, body |-> BodyNone, raw |-> ParamOK] : q \in Queries }
    \cup
    { [query |-> QueryNone, body |-> b, raw |-> ParamOK] : b \in Bodies }
    \cup
    { [query |-> QueryFull, body |-> b, raw |-> x] :
        b \in {BodyNone, BodyFull}, x \in ParamRaw }

\* the names of the path variables of a route path (Echo's c.ParamNames())
RECURSIVE ParamNamesOf(_)
ParamNamesOf(parts) ==
    IF parts = <<>> THEN <<>>
    ELSE (IF HasPrefix(Head(parts), <<":">>) THEN <<TrimPrefix(Head(parts), <<":">>)>> ELSE <<>>)
         \o ParamNamesOf(Tail(parts))

ParamNames(path) == ParamNamesOf(Split(path, "/"))

\* the value a request source holds under a binding name
Lookup(source, name) ==
    CASE name = <<"i", "d">>   -> source.id
      [] name = <<"n", "a", "m", "e">> -> source.name
      [] OTHER -> Absent


(***************************************************************************)
(* Echo's DefaultBinder, as called at src/echonext.go 275, 283, 292        *)
(***************************************************************************)
BindingName(field, tag) == IF tag = "query" THEN field.query ELSE field.param

\* the outcome of setting one field: ok and the field's new value
Kept(old) == [ok |-> TRUE, v |-> old]

IntSet(p, old) == [ok |-> p.ok, v |-> IF p.ok THEN IntVal(p.v) ELSE old]

\* setWithProperType: the raw string converted to the field's kind
Convert(type, raw, old) ==
    IF type = "int"
    THEN IntSet(Atoi(IF raw = <<>> THEN <<"0">> ELSE raw), old)
    ELSE [ok |-> TRUE, v |-> StrVal(raw)]

\* bindData for one field: a field that has a binding name under the tag and
\* a value under that name in the source is set from it, any other is kept
BindField(field, given, old) ==
    IF given = Absent THEN Kept(old) ELSE Convert(field.Type, given[1], old)

\* the instance with the outcomes of its fields
Assemble(inst, outcomes) ==
    [ok   |-> \A i \in 1..Len(outcomes) : outcomes[i].ok,
     inst |-> [inst EXCEPT !.elems = [i \in 1..Len(outcomes) |-> outcomes[i].v]]]

\* bindData
BindData(inst, fields, source, tag) ==
    Assemble(inst,
        [i \in 1..Len(fields) |->
            BindField(fields[i],
                      IF BindingName(fields[i], tag) = <<>> THEN Absent
                      ELSE Lookup(source, BindingName(fields[i], tag)),
                      inst.elems[i])])

\* (&echo.DefaultBinder{}).BindQueryParams(c, req)
BindQueryParams(inst, t, rq) == BindData(inst, TypeDef(t).Fields, rq.query, "query")

\* (&echo.DefaultBinder{}).BindPathParams(c, req)
BindPathParams(inst, t, rq) == BindData(inst, TypeDef(t).Fields, rq.params, "param")

\* encoding/json: the object key of a field, <<>> for json:"-"
JSONKey(field) ==
    IF field.json = <<"-">> THEN <<>>
    ELSE IF field.json = <<>> \/ Split(field.json, ",")[1] = <<>>
         THEN <<field.Name>>
         ELSE <<Split(field.json, ",")[1]>>

\* json.Decoder.Decode for one field: a member of the wrong JSON type is an
\* UnmarshalTypeError
DecodeField(type, member, old) ==
    IF member = Absent THEN Kept(old)
    ELSE IF type = "int"
         THEN [ok |-> member[1].t = "number",
               v  |-> IF member[1].t = "number" THEN IntVal(member[1].n) ELSE old]
         ELSE [ok |-> member[1].t = "string",
               v  |-> IF member[1].t = "string" THEN StrVal(member[1].s) ELSE old]

\* DefaultBinder.BindBody: nothing for Content-Length 0, else the JSON body
BindBody(inst, t, rq) ==
    CASE rq.body.kind = "none" -> [ok |-> TRUE, inst |-> inst]
      [] rq.body.kind = "malformed" -> [ok |-> FALSE, inst |-> inst]
      [] rq.body.kind = "json" ->
           Assemble(inst,
               [i \in 1..Len(TypeDef(t).Fields) |->
                   DecodeField(TypeDef(t).Fields[i].Type,
                               IF JSONKey(TypeDef(t).Fields[i]) = <<>> THEN Absent
                               ELSE Lookup(rq.body, JSONKey(TypeDef(t).Fields[i])[1]),
                               inst.elems[i])])

\* the steps of DefaultBinder.Bind after the path variables
BindAfterQuery(q, t, rq) == IF ~q.ok THEN q ELSE BindBody(q.inst, t, rq)

BindAfterPath(p, t, rq, withQuery) ==
    IF ~p.ok THEN p
    ELSE BindAfterQuery(IF withQuery THEN BindQueryParams(p.inst, t, rq) ELSE p, t, rq)

\* c.Bind(req) = DefaultBinder.Bind: path variables, then query parameters
\* for GET and DELETE only, then the body
Bind_QueryAlways(inst, t, rq) ==
    BindAfterPath(BindPathParams(inst, t, rq), t, rq, TRUE)

Bind(inst, t, rq) ==
    BindAfterPath(BindPathParams(inst, t, rq), t, rq,
                  rq.Method = "GET" \/ rq.Method = "DELETE")

(***************************************************************************)
(* validator.Struct, as called at src/echonext.go 300                      *)
(***************************************************************************)
InList(list, x) == \E i \in 1..Len(list) : list[i] = x

\* the size min= and max= compare: the number, or the length of the string
SizeOf(v) == IF v.k = "int" THEN v.n ELSE Len(v.s)

\* the email rule on the parts around "@"
EmailParts(parts) == Len(parts) = 2 /\ parts[1] # <<>> /\ parts[2] # <<>>

\* one rule of a validate tag on one field value
RuleHolds(v, rule) ==
    CASE rule = <<"r", "e", "q", "u", "i", "r", "e", "d">>  -> ~IsZero(v)
      [] HasPrefix(rule, <<"m", "i", "n", "=">>) -> SizeOf(v) >= Atoi(TrimPrefix(rule, <<"m", "i", "n", "=">>)).v
      [] HasPrefix(rule, <<"m", "a", "x", "=">>) -> SizeOf(v) <= Atoi(TrimPrefix(rule, <<"m", "a", "x", "=">>)).v
      [] HasPrefix(rule, <<"o", "n", "e", "o", "f", "=">>) -> InList(Split(TrimPrefix(rule, <<"o", "n", "e", "o", "f", "=">>), " "), v.s)
      [] rule = <<"e", "m", "a", "i", "l">> -> EmailParts(Split(v.s, "@"))
      [] OTHER -> TRUE

\* the rules of a validate tag in order; omitempty ends them for a zero value
RECURSIVE RunRules(_, _)
RunRules(v, rules) ==
    IF rules = <<>> THEN TRUE
    ELSE IF Head(rules) = <<"o", "m", "i", "t", "e", "m", "p", "t", "y">>
         THEN IsZero(v) \/ RunRules(v, Tail(rules))
         ELSE RuleHolds(v, Head(rules)) /\ RunRules(v, Tail(rules))

\* app.validator.Struct(req): nil iff every field passes its rules
ValidateStruct(inst, t) ==
    \A i \in 1..Len(TypeDef(t).Fields) :
        TypeDef(t).Fields[i].validate # <<>> =>
            RunRules(inst.elems[i], Split(TypeDef(t).Fields[i].validate, ","))

(***************************************************************************)
(* The wrapped handler  (src/echonext.go 264-348)                          *)
(***************************************************************************)
\* Response[any]{Data, Error, Success}; Data is <<>> for a nil interface,
\* Error is the pieces the message is formatted from
Response(data, error, success) == [Data |-> data, Error |-> error, Success |-> success]

\* a response written without a body
JSON_Bare(status, body) == [status |-> status, envelope |-> FALSE, body |-> body]

\* c.JSON(status, body)
JSON(status, body) == [status |-> status, envelope |-> TRUE, body |-> body]

\* c.NoContent(status)
NoContent(status) ==
    [status |-> status, envelope |-> FALSE, body |-> Response(<<>>, <<>>, FALSE)]

StatusBadRequest == 400
StatusInternalServerError == 500
StatusOK == 200
StatusNoContent == 204

\* lines 276-279, 284-287, 293-296, 301-304: the 400 response of a failed
\* binding or validation step
BadRequest_Unprocessable(prefix, cause) ==
    JSON(422, Response(<<>>, <<prefix, cause>>, FALSE))

BadRequest(prefix, cause) ==
    JSON(StatusBadRequest, Response(<<>>, <<prefix, cause>>, FALSE))

\* line 273: the verbs bound from the query string
IsQueryVerb(rq) == rq.Method = "GET" \/ rq.Method = "DELETE"

\* lines 269-289: a new instance bound from the query string (GET, DELETE)
\* or by c.Bind (any other method)
SourceBinding(t, rq) ==
    IF IsQueryVerb(rq)
    THEN BindQueryParams(ZeroOf(t), t, rq)
    ELSE Bind(ZeroOf(t), t, rq)

\* lines 273-289 on the instance reqPtr points to
SourceBindingOn(inst, t, rq) ==
    IF IsQueryVerb(rq)
    THEN BindQueryParams(inst, t, rq)
    ELSE Bind(inst, t, rq)

\* line 292: the path variables bound over the instance
PathBinding_Skipped(inst, t, rq) == [ok |-> TRUE, inst |-> inst]

PathBinding(inst, t, rq) == BindPathParams(inst, t, rq)

\* line 300: whether the validator accepts the instance
Validation_Skipped(inst, t) == TRUE

Validation(inst, t) == ValidateStruct(inst, t)

\* what binding and validation leave: stage is the step that failed ("" when
\* none did), steps the steps that ran, bound the instance when both binding
\* steps succeeded, inst the instance handed to the handler, resp the
\* response already written
Stopped(stage, steps, bound, resp) ==
    [stage |-> stage, steps |-> steps, bound |-> bound, inst |-> <<>>, resp |-> <<resp>>]

Passed(steps, inst) ==
    [stage |-> "", steps |-> steps, bound |-> inst, inst |-> inst, resp |-> <<>>]

FirstStage(rq) == IF IsQueryVerb(rq) THEN "query" ELSE "body"

\* lines 299-307
AfterValidation(valid, inst, rq) ==
    IF ~valid
    THEN Stopped("validate", <<FirstStage(rq), "path", "validate">>, <<inst>>,
                 BadRequest("Validation failed: ", "validation error"))
    ELSE Passed(<<FirstStage(rq), "path", "validate">>, <<inst>>)

\* lines 291-305
AfterPathBinding(pth, t, rq) ==
    IF ~pth.ok
    THEN Stopped("path", <<FirstStage(rq), "path">>, <<>>,
                 BadRequest("Invalid path parameters: ", "binding error"))
    ELSE AfterValidation(Validation(pth.inst, t), pth.inst, rq)

\* lines 273-305 with the validation of line 300 moved before line 292
AfterSourceBinding_ValidateFirst(src, t, rq) ==
    IF ~src.ok
    THEN Stopped(FirstStage(rq), <<FirstStage(rq)>>, <<>>,
                 BadRequest(IF IsQueryVerb(rq) THEN "Invalid query parameters: "
                            ELSE "Invalid request body: ", "binding error"))
    ELSE IF ~Validation(src.inst, t)
         THEN Stopped("validate", <<FirstStage(rq), "validate">>, <<>>,
                      BadRequest("Validation failed: ", "validation error"))
         ELSE IF ~PathBinding(src.inst, t, rq).ok
              THEN Stopped("path", <<FirstStage(rq), "validate", "path">>, <<>>,
                           BadRequest("Invalid path parameters: ", "binding error"))
              ELSE Passed(<<FirstStage(rq), "validate", "path">>,
                          <<PathBinding(src.inst, t, rq).inst>>)

\* lines 273-305
AfterSourceBinding(src, t, rq) ==
    IF ~src.ok
    THEN Stopped(FirstStage(rq), <<FirstStage(rq)>>, <<>>,
                 BadRequest(IF IsQueryVerb(rq) THEN "Invalid query parameters: "
                            ELSE "Invalid request body: ", "binding error"))
    ELSE AfterPathBinding(PathBinding(src.inst, t, rq), t, rq)

\* lines 268-308: binding and validation
BindAndValidate(requestType, rq) ==
    IF requestType = <<>>
    THEN Passed(<<>>, <<>>)
    ELSE AfterSourceBinding(SourceBinding(requestType[1], rq), requestType[1], rq)

\* lines 319-328: the response for a non-nil error returned by the handler
ErrorResponse_Always500(err) ==
    JSON(StatusInternalServerError, Response(<<>>, <<err.msg>>, FALSE))

ErrorResponse(err) ==
    IF err.kind = "http"
    THEN JSON(err.code, Response(<<>>, <<err.msg>>, FALSE))
    ELSE JSON(StatusInternalServerError, Response(<<>>, <<err.msg>>, FALSE))

\* lines 335-338: the status of a success response
SuccessStatusOf_AlwaysOK(routeConfig) == StatusOK

SuccessStatusOf(routeConfig) ==
    IF routeConfig # <<>> /\ routeConfig[1].SuccessStatus > 0
    THEN routeConfig[1].SuccessStatus
    ELSE StatusOK

\* line 333: results[0].IsValid() && !results[0].IsZero()
HasPayload_Always(v) == TRUE

HasPayload(v) == ~IsZero(v)

\* lines 314-347: the response for the values the handler returned
Normalize(results, routeConfig) ==
    IF Len(results) > 0
    THEN IF /\ Len(results) > 1
            /\ results[Len(results)].k = "error"
            /\ results[Len(results)].err.kind # "nil"
         THEN ErrorResponse(results[Len(results)].err)
         ELSE IF HasPayload(results[1])
              THEN JSON(SuccessStatusOf(routeConfig), Response(<<results[1]>>, <<>>, TRUE))
              ELSE NoContent(StatusNoContent)
    ELSE NoContent(StatusNoContent)

\* line 311: reflect.Value.Call panics, before the function is entered, when
\* the number of arguments is not the number of the function's parameters or
\* an argument is not of its parameter's type; args are the context and,
\* when the handler has a request type, the instance (265, 307)
CallPanics(handler, requestType) ==
    \/ Len(handler.In) # 1 + Len(requestType)
    \/ handler.In[1] # "echo.Context"

\* the whole closure for request rq on registration r, given what binding
\* and validation left; results are the values the handler body returns when
\* it is reached.  New() installs no recovering middleware: a panic of the
\* closure ends the request with nothing written
Handle(r, rq, bv, results) ==
    IF bv.stage # ""
    THEN [route |-> r, rq |-> rq, stage |-> bv.stage, steps |-> bv.steps \o <<"respond">>,
          bound |-> bv.bound, called |-> FALSE, args |-> <<>>, results |-> <<>>,
          resp |-> bv.resp[1]]
    ELSE IF CallPanics(routes[r].Handler, routes[r].RequestType)
    THEN [route |-> r, rq |-> rq, stage |-> "call", steps |-> bv.steps \o <<"panic">>,
          bound |-> bv.bound, called |-> FALSE, args |-> <<>>, results |-> <<>>,
          resp |-> NoContent(0)]
    ELSE [route |-> r, rq |-> rq, stage |-> "",
          steps |-> bv.steps \o <<"call", "respond">>,
          bound |-> bv.bound, called |-> TRUE, args |-> bv.inst, results |-> results,
          resp |-> Normalize(results, routes[r].RouteConfig)]

NoParams == [id |-> Absent, name |-> Absent]

NoRequest ==
    [route |-> 0,
     rq |-> [Method |-> "", Path |-> <<>>, params |-> NoParams,
             query |-> NoParams, body |-> BodyNone],
     stage |-> "", steps |-> <<>>, bound |-> <<>>, called |-> FALSE, args |-> <<>>,
     results |-> <<>>, resp |-> NoContent(0)]

\* the request Echo hands to the handler registered for key: its method and
\* path, the path variables the router extracted, query string and body
RequestOf(key, in) ==
    [Method |-> key[1], Path |-> key[2],
     params |-> IF ParamNames(key[2]) # <<>>
                THEN [id |-> Given(in.raw), name |-> Absent]
                ELSE NoParams,
     query |-> in.query, body |-> in.body]

\* the closure runs: binding and validation, then, when they pass, the
\* handler body, which returns some results, then the response
RunHandler(r, rq, bv, entered) ==
    \E results \in IF entered THEN Returns(routes[r].Handler.Out) ELSE {<<>>} :
        /\ last' = Handle(r, rq, bv, results)
        /\ calls' = IF entered THEN [calls EXCEPT ![r] = @ + 1] ELSE calls

\* the handler body is entered when binding and validation pass and the
\* call at line 311 does not panic
Entered(r, bv) ==
    bv.stage = "" /\ ~CallPanics(routes[r].Handler, routes[r].RequestType)

DispatchWith(r, rq, bv) == RunHandler(r, rq, bv, Entered(r, bv))

Dispatch(r, rq) == DispatchWith(r, rq, BindAndValidate(routes[r].RequestType, rq))

\* Echo dispatches a request to the handler its route table holds for the
\* request's method and path
ServeRequest ==
    /\ ~crashed
    /\ served < MaxServed
    /\ \E key \in DOMAIN router, in \in Inputs :
           Dispatch(router[key], RequestOf(key, in))
    /\ served' = served + 1
    /\ UNCHANGED <<routes, router, crashed, paths, gor, heap>>
    /\ UNCHANGED derVars

(***************************************************************************)
(* Document assembly  (src/echonext.go 351-625)                            *)
(*                                                                         *)
(* The routes of the model declare no headers, content types or examples,  *)
(* so lines 421-437 and 447-449, 460-470, 519-538 add nothing.             *)
(***************************************************************************)
\* strings.Join
RECURSIVE Join(_, _)
Join(parts, sep) ==
    IF parts = <<>> THEN <<>>
    ELSE IF Len(parts) = 1 THEN parts[1]
         ELSE parts[1] \o <<sep>> \o Join(Tail(parts), sep)

\* fmt.Sprintf("%d", n)
RECURSIVE FormatNat(_)
FormatNat(n) ==
    IF n < 10 THEN <<Digits[n + 1]>>
    ELSE FormatNat(n \div 10) \o <<Digits[(n % 10) + 1]>>

Sprintf_d(n) == IF n < 0 THEN <<"-">> \o FormatNat(0 - n) ELSE FormatNat(n)

\* lines 363-368: one segment of the path in OpenAPI form
OpenAPISegment(part) ==
    IF HasPrefix(part, <<":">>) THEN <<"{">> \o Tail(part) \o <<"}">> ELSE part

\* lines 361-369: the Echo path in OpenAPI form
OpenAPIPath(path) ==
    Join([i \in 1..Len(Split(path, "/")) |-> OpenAPISegment(Split(path, "/")[i])], "/")

\* &openapi3.PathItem{}
PathItem == [GET |-> <<>>, POST |-> <<>>, PUT |-> <<>>, PATCH |-> <<>>, DELETE |-> <<>>]

\* &openapi3.Parameter{Name, In, Required, Schema}
Parameter(name, in, required, schema) ==
    [Name |-> name, In |-> in, Required |-> required, Schema |-> schema]

\* lines 404-419: one path parameter per ":name" segment
RECURSIVE PathParameters(_)
PathParameters(parts) ==
    IF parts = <<>> THEN <<>>
    ELSE (IF HasPrefix(Head(parts), <<":">>)
          THEN <<Parameter(Tail(Head(parts)), "path", TRUE, [Schema EXCEPT !.Type = "string"])>>
          ELSE <<>>)
         \o PathParameters(Tail(parts))

\* lines 602-624: the loop of addQueryParameters from field i on
RECURSIVE QueryParameters(_, _)
QueryParameters(fields, i) ==
    IF i > Len(fields) THEN <<>>
    ELSE (IF fields[i].query = <<>> \/ fields[i].query = <<"-">>
          THEN <<>>
          ELSE <<Parameter(fields[i].query, "query",
                           fields[i].validate # <<>>
                               /\ Contains(fields[i].validate, <<"r", "e", "q", "u", "i", "r", "e", "d">>),
                           generateSchema(fields[i].Type))>>)
         \o QueryParameters(fields, i + 1)

\* lines 593-625: the parameters addQueryParameters appends for type t
addQueryParameters(t) ==
    IF TypeDef(Deref(t)).Kind # "Struct" THEN <<>>
    ELSE QueryParameters(TypeDef(Deref(t)).Fields, 1)

\* lines 440-443: the query parameters of an operation
QueryParametersOf(route) ==
    IF route.RequestType # <<>> /\ (route.Method = "GET" \/ route.Method = "DELETE")
    THEN addQueryParameters(route.RequestType[1])
    ELSE <<>>

\* lines 445-482: &openapi3.RequestBody{Content, Required: true}
RequestBody(schema) ==
    [Required |-> TRUE, Content |-> ("application/json" :> schema)]

\* lines 439-483: the request body of an operation, if it has one
RequestBodyOf_AnyVerb(route) ==
    IF route.RequestType # <<>>
    THEN <<RequestBody(generateSchema(route.RequestType[1]))>>
    ELSE <<>>

RequestBodyOf(route) ==
    IF route.RequestType # <<>> /\ ~(route.Method = "GET" \/ route.Method = "DELETE")
    THEN <<RequestBody(generateSchema(route.RequestType[1]))>>
    ELSE <<>>

\* lines 488-502: the envelope around the response schema
ResponseSchema(schema) ==
    [Schema EXCEPT
        !.Type = "object",
        !.Properties = ("success" :> [Schema EXCEPT !.Type = "boolean"])
                       @@ ("data" :> schema)
                       @@ ("error" :> [Schema EXCEPT !.Type = "string"])]

\* lines 543-553
ErrorSchema ==
    [Schema EXCEPT
        !.Type = "object",
        !.Properties = ("success" :> [Schema EXCEPT !.Type = "boolean", !.Default = <<FALSE>>])
                       @@ ("error" :> [Schema EXCEPT !.Type = "string"])]

\* &openapi3.Response{Description, Content}
DocResponse(description, schema) ==
    [Description |-> description, Content |-> ("application/json" :> schema)]

\* lines 505-509: the key of the success response
successStatus_Always200(routeConfig) == <<"2", "0", "0">>

successStatus(routeConfig) ==
    IF routeConfig # <<>> /\ routeConfig[1].SuccessStatus > 0
    THEN Sprintf_d(routeConfig[1].SuccessStatus)
    ELSE <<"2", "0", "0">>

\* lines 486-540: the success response, if the handler returns anything
SuccessResponses(route) ==
    IF route.ResponseType # <<>>
    THEN successStatus(route.RouteConfig) :>
            DocResponse("Successful response",
                        ResponseSchema(generateSchema(route.ResponseType[1])))
    ELSE <<>>

\* lines 486-574: operation.Responses; the assignments of "400" and "500"
\* come after that of the success status
Responses(route) ==
    (<<"5", "0", "0">> :> DocResponse("Internal server error", ErrorSchema))
    @@ (<<"4", "0", "0">> :> DocResponse("Bad request", ErrorSchema))
    @@ SuccessResponses(route)

\* lines 387-397: the requirement built for one Security, a map from scheme
\* name to scopes
SecurityRequirement(sec) ==
    CASE sec.Type = "bearer" -> ("bearerAuth" :> <<>>)
      [] sec.Type = "apiKey" -> IF sec.Name # "" THEN (sec.Name :> <<>>) ELSE <<>>
      [] sec.Type = "basic"  -> ("basicAuth" :> <<>>)
      [] OTHER -> <<>>

\* lines 381-400: operation.Security
SecurityRequirements(route) ==
    IF route.RouteConfig # <<>> /\ Len(route.RouteConfig[1].Security) > 0
    THEN [k \in 1..Len(route.RouteConfig[1].Security) |->
             SecurityRequirement(route.RouteConfig[1].Security[k])]
    ELSE <<>>

\* lines 375-574: the operation object built for a route
Operation(route) ==
    [Summary |-> route.Summary, Description |-> route.Description, Tags |-> route.Tags,
     Security |-> SecurityRequirements(route),
     Parameters |-> PathParameters(Split(route.Path, "/")) \o QueryParametersOf(route),
     RequestBody |-> RequestBodyOf(route),
     Responses |-> Responses(route)]

\* lines 371-373: the path item the operation goes into
PathItemAt(table, path) == IF path \in DOMAIN table THEN table[path] ELSE PathItem

\* lines 577-589 on a path item made anew for every route
SetOperation_Fresh(item, method, operation) ==
    [PathItem EXCEPT ![method] = <<operation>>]

\* lines 577-589: the switch on route.Method
SetOperation(item, method, operation) ==
    IF method \in DOMAIN item THEN [item EXCEPT ![method] = <<operation>>] ELSE item

\* lines 360-590
addRouteToSpec(table, route) ==
    (OpenAPIPath(route.Path) :>
        SetOperation(PathItemAt(table, OpenAPIPath(route.Path)), route.Method,
                     Operation(route)))
    @@ table

\* lines 353-355: the loop over app.routes from route i on
RECURSIVE AddRoutesFrom(_, _, _)
AddRoutesFrom(table, rs, i) ==
    IF i > Len(rs) THEN table
    ELSE AddRoutesFrom(addRouteToSpec(table, rs[i]), rs, i + 1)

\* lines 352-357: GenerateOpenAPISpec, called directly or by the handler
\* ServeOpenAPISpec installs (752-756)
GenerateOpenAPISpec ==
    /\ ~crashed
    /\ paths' = AddRoutesFrom(paths, routes, 1)
    /\ UNCHANGED <<routes, router, crashed, calls, served, last, gor, heap>>
    /\ UNCHANGED derVars

\* registrations beside those of the catalogue: handlers that do not take
\* the context first, a second handler for a method and path, and
\* operations that declare security requirements
MoreOps ==
    { Op("GET", <<"/", "p", "i", "n", "g">>, Handler("ping", <<>>, <<"error">>), <<>>),
      Op("GET", <<"/", "s", "e", "a", "r", "c", "h">>,
         Handler("searchItems", <<"echo.Context", "SearchReq">>, <<"[]Item", "error">>),
         <<>>),
      Op("GET", <<"/", "m", "e">>,
         Handler("whoAmI", <<"echo.Context">>, <<"string", "error">>),
         <<SecuredRoute("Current user", <<"Auth">>, 0,
                        <<Security("bearer", ""), Security("apiKey", "X-API-Key")>>)>>),
      Op("GET", <<"/", "a", "d", "m", "i", "n">>,
         Handler("adminOnly", <<"echo.Context">>, <<"string", "error">>),
         <<SecuredRoute("Admin", <<"Auth">>, 0,
                        <<Security("basic", ""), Security("oauth2", "")>>)>>),
      Op("GET", <<"/", "e", "c", "h", "o">>, Handler("echoName", <<"string">>, <<"string", "error">>), <<>>),
      Op("DELETE", <<"/", "i", "t", "e", "m", "s", "/", ":", "i", "d">>,
         Handler("removeItem", <<"echo.Context">>, <<"error">>), <<>>) }

\* handlers of every shape registerRoute accepts
HandlerShapes ==
    { op \in Catalogue \cup MoreOps :
        op.handler.Name \in {"createItem", "patchItem", "deleteItem", "ping", "echoName"} }

\* lines 183-206, for these handlers
RegisterHandler ==
    /\ \E op \in HandlerShapes :
          /\ Len(routes) < MaxRoutes \/ ~op.handler.IsFunc
          /\ registerRoute(op.method, op.path, op.handler, op.opts)
    /\ UNCHANGED <<paths, gor, heap>>
    /\ UNCHANGED derVars

\* lines 183-206, for the catalogue and these registrations
RegisterAny ==
    /\ \E op \in Catalogue \cup MoreOps :
          /\ Len(routes) < MaxDocRoutes \/ ~op.handler.IsFunc
          /\ registerRoute(op.method, op.path, op.handler, op.opts)
    /\ UNCHANGED <<paths, gor, heap>>
    /\ UNCHANGED derVars

(***************************************************************************)
(* Requests served concurrently: net/http runs every request on its own    *)
(* goroutine.  One goroutine runs the wrapped handler (264-348) or the     *)
(* handler of the documentation endpoint (752-756, 352-357, 360-590); a    *)
(* step is a run of statements with at most one access to memory other     *)
(* goroutines can reach.                                                   *)
(***************************************************************************)
Goroutines == 1..MaxGoroutines

IdleGoroutine ==
    [kind |-> "idle", pc |-> "", r |-> 0, rq |-> NoRequest.rq, slot |-> 0,
     called |-> FALSE, args |-> <<>>, results |-> <<>>, resp |-> <<>>, i |-> 0]

\* the registrations of the application that serves concurrently
ServedOps ==
    << Op("POST", <<"/", "i", "t", "e", "m", "s", "/", ":", "i", "d">>,
          Handler("createItem", <<"echo.Context", "ItemReq">>, <<"Item", "error">>),
          <<Route("Create item", <<"Items">>, 201)>>),
       Op("GET", <<"/", "i", "t", "e", "m", "s", "/", ":", "i", "d">>,
          Handler("listItems", <<"echo.Context", "ItemReq">>, <<"[]Item", "error">>),
          <<>>) >>

\* the requests sent to it: one that binds and validates, one whose path
\* variable does not convert, one that fails validation
ServedInputs ==
    { [query |-> QueryFull, body |-> BodyFull, raw |-> ParamOK],
      [query |-> QueryFull, body |-> BodyFull, raw |-> <<"x">>],
      [query |-> QueryNone, body |-> BodyNone, raw |-> ParamOK] }

\* what the handler bodies return
ServedReturns(out) ==
    { results \in Returns(out) :
        \/ results[Len(results)].err.kind = "plain"
        \/ results[Len(results)].err.kind = "nil" /\ ~IsZero(results[1]) }

\* line 269: reflect.New(requestType) allocates memory no other goroutine
\* holds a pointer to
NewSlot_Shared(g) == 1

NewSlot(g) == g

\* the goroutine ends with the response written
Finished(s, called, args, results, resp) ==
    [s EXCEPT !.pc = "done", !.called = called, !.args = args,
              !.results = results, !.resp = <<resp>>]

\* Echo hands a request to the wrapped handler on a new goroutine; lines
\* 265-289: the instance is allocated and bound from the query or the body
BindRequestOn(g, r, rq, src) ==
    IF routes[r].RequestType = <<>>
    THEN /\ gor' = [gor EXCEPT ![g] = [IdleGoroutine EXCEPT !.kind = "op", !.pc = "call",
                                                           !.r = r, !.rq = rq]]
         /\ UNCHANGED heap
    ELSE /\ heap' = (NewSlot(g) :> src.inst) @@ heap
         /\ gor' = [gor EXCEPT ![g] =
                IF src.ok
                THEN [IdleGoroutine EXCEPT !.kind = "op", !.pc = "path", !.r = r,
                                           !.rq = rq, !.slot = NewSlot(g)]
                ELSE Finished([IdleGoroutine EXCEPT !.kind = "op", !.r = r, !.rq = rq,
                                                    !.slot = NewSlot(g)],
                              FALSE, <<>>, <<>>,
                              BadRequest(IF IsQueryVerb(rq) THEN "Invalid query parameters: "
                                         ELSE "Invalid request body: ", "binding error"))]

BindRequest ==
    /\ ~crashed
    /\ \E g \in Goroutines, key \in DOMAIN router, in \in ServedInputs :
          /\ gor[g].kind = "idle"
          /\ BindRequestOn(g, router[key], RequestOf(key, in),
                 IF routes[router[key]].RequestType = <<>>
                 THEN [ok |-> TRUE, inst |-> <<>>]
                 ELSE SourceBindingOn(ZeroOf(routes[router[key]].RequestType[1]),
                                      routes[router[key]].RequestType[1],
                                      RequestOf(key, in)))
    /\ UNCHANGED <<routes, router, crashed, calls, served, last, paths>>
    /\ UNCHANGED derVars

\* lines 291-307: the path variables are bound over the instance reqPtr
\* points to and the instance is validated
CheckRequestOn(g, pth, t) ==
    IF ~pth.ok
    THEN /\ gor' = [gor EXCEPT ![g] = Finished(@, FALSE, <<>>, <<>>,
                        BadRequest("Invalid path parameters: ", "binding error"))]
         /\ heap' = [heap EXCEPT ![gor[g].slot] = pth.inst]
    ELSE /\ heap' = [heap EXCEPT ![gor[g].slot] = pth.inst]
         /\ gor' = [gor EXCEPT ![g] =
                IF Validation(pth.inst, t)
                THEN [@ EXCEPT !.pc = "call"]
                ELSE Finished(@, FALSE, <<>>, <<>>,
                              BadRequest("Validation failed: ", "validation error"))]

CheckRequest ==
    /\ ~crashed
    /\ \E g \in Goroutines :
          /\ gor[g].kind = "op" /\ gor[g].pc = "path"
          /\ CheckRequestOn(g, PathBinding(heap[gor[g].slot],
                                           routes[gor[g].r].RequestType[1], gor[g].rq),
                            routes[gor[g].r].RequestType[1])
    /\ UNCHANGED <<routes, router, crashed, calls, served, last, paths>>
    /\ UNCHANGED derVars

\* lines 309-347: reqPtr.Elem() is passed to the handler, which returns, and
\* the response is written
CallHandler ==
    /\ ~crashed
    /\ \E g \in Goroutines :
          /\ gor[g].kind = "op" /\ gor[g].pc = "call"
          /\ \E results \in ServedReturns(routes[gor[g].r].Handler.Out) :
                gor' = [gor EXCEPT ![g] =
                    Finished(@, TRUE,
                             IF routes[gor[g].r].RequestType = <<>> THEN <<>>
                             ELSE <<heap[gor[g].slot]>>,
                             results,
                             Normalize(results, routes[gor[g].r].RouteConfig))]
    /\ UNCHANGED <<routes, router, crashed, calls, served, last, paths, heap>>
    /\ UNCHANGED derVars

\* lines 752-756: a request to the documentation endpoint starts
\* GenerateOpenAPISpec on its goroutine
StartDocument ==
    /\ ~crashed
    /\ \E g \in Goroutines :
          /\ gor[g].kind = "idle"
          /\ gor' = [gor EXCEPT ![g] =
                [IdleGoroutine EXCEPT !.kind = "doc", !.i = 1,
                     !.pc = IF Len(routes) = 0 THEN "marshal" ELSE "lookup"]]
    /\ UNCHANGED <<routes, router, crashed, calls, served, last, paths, heap>>
    /\ UNCHANGED derVars

\* line 371: app.spec.Paths[path] == nil
DocLookup ==
    /\ ~crashed
    /\ \E g \in Goroutines :
          /\ gor[g].kind = "doc" /\ gor[g].pc = "lookup"
          /\ gor' = [gor EXCEPT ![g].pc =
                IF OpenAPIPath(routes[gor[g].i].Path) \in DOMAIN paths
                THEN "set" ELSE "create"]
    /\ UNCHANGED <<routes, router, crashed, calls, served, last, paths, heap>>
    /\ UNCHANGED derVars

\* line 372: app.spec.Paths[path] = &openapi3.PathItem{}
DocCreate ==
    /\ ~crashed
    /\ \E g \in Goroutines :
          /\ gor[g].kind = "doc" /\ gor[g].pc = "create"
          /\ paths' = (OpenAPIPath(routes[gor[g].i].Path) :> PathItem) @@ paths
          /\ gor' = [gor EXCEPT ![g].pc = "set"]
    /\ UNCHANGED <<routes, router, crashed, calls, served, last, heap>>
    /\ UNCHANGED derVars

\* lines 375-589: the operation is built and stored in the path item; line
\* 353: the loop goes on to the next route
DocSet ==
    /\ ~crashed
    /\ \E g \in Goroutines :
          /\ gor[g].kind = "doc" /\ gor[g].pc = "set"
          /\ paths' = [paths EXCEPT ![OpenAPIPath(routes[gor[g].i].Path)] =
                          SetOperation(@, routes[gor[g].i].Method,
                                       Operation(routes[gor[g].i]))]
          /\ gor' = [gor EXCEPT ![g].i = @ + 1,
                                ![g].pc = IF gor[g].i < Len(routes) THEN "lookup"
                                          ELSE "marshal"]
    /\ UNCHANGED <<routes, router, crashed, calls, served, last, heap>>
    /\ UNCHANGED derVars

\* line 754: c.JSON(http.StatusOK, app.spec) serializes the document
DocMarshal ==
    /\ ~crashed
    /\ \E g \in Goroutines :
          /\ gor[g].kind = "doc" /\ gor[g].pc = "marshal"
          /\ gor' = [gor EXCEPT ![g] = Finished(@, FALSE, <<>>, <<>>,
                        [status |-> StatusOK, envelope |-> FALSE, body |-> paths])]
    /\ UNCHANGED <<routes, router, crashed, calls, served, last, paths, heap>>
    /\ UNCHANGED derVars

\* one access to memory: the map app.spec.Paths, a path item (all of them
\* when every is set), or an instance on the heap
Access(area, path, slot, every, write) ==
    [area |-> area, path |-> path, slot |-> slot, every |-> every, write |-> write]

\* the accesses of the step a goroutine takes next
NextAccesses(g) ==
    CASE gor[g].kind = "doc" /\ gor[g].pc = "lookup" ->
            { Access("Paths", <<>>, 0, FALSE, FALSE) }
      [] gor[g].kind = "doc" /\ gor[g].pc = "create" ->
            { Access("Paths", <<>>, 0, FALSE, TRUE) }
      [] gor[g].kind = "doc" /\ gor[g].pc = "set" ->
            { Access("Paths", <<>>, 0, FALSE, FALSE),
              Access("PathItem", OpenAPIPath(routes[gor[g].i].Path), 0, FALSE, TRUE) }
      [] gor[g].kind = "doc" /\ gor[g].pc = "marshal" ->
            { Access("Paths", <<>>, 0, FALSE, FALSE),
              Access("PathItem", <<>>, 0, TRUE, FALSE) }
      [] gor[g].kind = "op" /\ gor[g].pc = "path" ->
            { Access("heap", <<>>, gor[g].slot, FALSE, TRUE) }
      [] gor[g].kind = "op" /\ gor[g].pc = "call" /\ gor[g].slot # 0 ->
            { Access("heap", <<>>, gor[g].slot, FALSE, FALSE) }
      [] OTHER -> {}

\* two accesses to the same memory, one of them a write
Conflict(a, b) ==
    /\ a.area = b.area
    /\ a.every \/ b.every \/ (a.path = b.path /\ a.slot = b.slot)
    /\ a.write \/ b.write

Racing(g, h) ==
    g # h /\ \E a \in NextAccesses(g), b \in NextAccesses(h) : Conflict(a, b)

\* the Go runtime ends the process when it detects a map being written
\* while another goroutine reads or writes it
MapFault ==
    /\ ~crashed
    /\ \E g, h \in Goroutines :
          /\ g # h
          /\ \E a \in NextAccesses(g), b \in NextAccesses(h) :
                a.area = "Paths" /\ Conflict(a, b)
    /\ crashed' = TRUE
    /\ UNCHANGED <<routes, router, calls, served, last, paths, gor, heap>>
    /\ UNCHANGED derVars

\* the registrations performed after the application has started to serve
LateOps == { op \in MoreOps : op.handler.Name \in {"ping", "removeItem"} }

\* lines 183-206, called when the requests have been answered
RegisterLate ==
    /\ \A g \in Goroutines : gor[g].pc = "done"
    /\ \E op \in LateOps :
          /\ Len(routes) < Len(ServedOps) + MaxLateRoutes
          /\ registerRoute(op.method, op.path, op.handler, op.opts)
    /\ UNCHANGED <<paths, gor, heap>>
    /\ UNCHANGED derVars

(***************************************************************************)
(* Specifications                                                          *)
(***************************************************************************)
DeriveIdle ==
    /\ tagJSON = TagNone /\ tagValidate = TagNone /\ tagType = "string"
    /\ dtype = "string" /\ stack = <<>> /\ dret = <<>>
    /\ dstatus = "idle" /\ dresult = <<>>

\* New(): lines 92-112
AppNew ==
    /\ routes = <<>> /\ router = <<>> /\ crashed = FALSE
    /\ calls = <<>> /\ served = 0 /\ last = NoRequest
    /\ paths = <<>> /\ gor = <<>> /\ heap = <<>>

\* an application: registrations and requests
Init == AppNew /\ DeriveIdle

Next == Register \/ ServeRequest

Spec == Init /\ [][Next]_vars

\* one call of generateSchema on a type of the model
InitDerive ==
    /\ AppNew
    /\ dtype \in AcyclicTypes \cup CyclicTypes
    /\ IF dtype = "Probe"
       THEN tagJSON \in JsonTags /\ tagValidate \in ValidateTags /\ tagType \in ProbeTypes
       ELSE tagJSON = TagNone /\ tagValidate = TagNone /\ tagType = "string"
    /\ stack = <<Frame(dtype)>>
    /\ dret = <<>> /\ dstatus = "run" /\ dresult = <<>>

NextDerive ==
    \/ DeriveLeaf \/ DeriveCall \/ DeriveSkip
    \/ DeriveResume \/ DeriveReturn \/ DeriveDone
    \/ DeriveAgain

SpecDerive == InitDerive /\ [][NextDerive]_vars

\* an application that has registered ServedOps and serves requests on
\* concurrent goroutines
InitServe ==
    /\ DeriveIdle
    /\ routes = [i \in 1..Len(ServedOps) |->
                    RouteInfoOf(ServedOps[i].method, ServedOps[i].path,
                                ServedOps[i].handler, ServedOps[i].opts)]
    /\ router = RouteTableFrom(<<>>, routes, 1)
    /\ crashed = FALSE /\ calls = [i \in 1..Len(ServedOps) |-> 0]
    /\ served = 0 /\ last = NoRequest
    /\ paths = <<>> /\ heap = <<>>
    /\ gor = [g \in Goroutines |-> IdleGoroutine]

NextServe ==
    \/ BindRequest \/ CheckRequest \/ CallHandler
    \/ StartDocument \/ DocLookup \/ DocCreate \/ DocSet \/ DocMarshal
    \/ MapFault
    \/ RegisterLate

SpecServe == InitServe /\ [][NextServe]_vars

\* an application: registrations and document assembly
NextDoc == RegisterAny \/ GenerateOpenAPISpec

SpecDoc == Init /\ [][NextDoc]_vars

\* an application whose handlers have every shape, and its requests
NextCall == RegisterHandler \/ ServeRequest

SpecCall == Init /\ [][NextCall]_vars


(***************************************************************************)
(* Properties of the request pipeline                                      *)
(***************************************************************************)
Served == last.route # 0

LastRoute == routes[last.route]

HasInput == Served /\ LastRoute.RequestType # <<>>

IsRead(rq) == rq.Method \in {"GET", "DELETE"}

RejectKinds == {"query", "body", "path", "validate"}

\* what binding the request's source gives: the query string for GET and
\* DELETE, the body otherwise
BoundFromSource(t, rq) ==
    IF IsRead(rq) THEN BindQueryParams(ZeroOf(t), t, rq) ELSE Bind(ZeroOf(t), t, rq)

\* the step named kind rejects the request, src and pth being what source
\* binding and path binding give
RejectsAt(src, pth, t, rq, kind) ==
    CASE kind = "query"    -> IsRead(rq) /\ ~src.ok
      [] kind = "body"     -> ~IsRead(rq) /\ ~src.ok
      [] kind = "path"     -> src.ok /\ ~pth.ok
      [] kind = "validate" -> src.ok /\ pth.ok /\ ~ValidateStruct(pth.inst, t)

RejectsAfter(src, t, rq, kind) ==
    RejectsAt(src, BindPathParams(src.inst, t, rq), t, rq, kind)

\* the request that was served cannot be bound or does not satisfy the
\* constraints of the input shape; kind names the step that rejects it
Rejects(t, rq, kind) == RejectsAfter(BoundFromSource(t, rq), t, rq, kind)

\* some step rejects the request
RejectedAt(src, pth, t, rq) == \E k \in RejectKinds : RejectsAt(src, pth, t, rq, k)

RejectedAfter(src, t, rq) == RejectedAt(src, BindPathParams(src.inst, t, rq), t, rq)

Rejected(t, rq) == RejectedAfter(BoundFromSource(t, rq), t, rq)

\* the handler returned no error
NoError(results) ==
    \A i \in 1..Len(results) : results[i].k = "error" => results[i].err.kind = "nil"

\* a value with nothing in it: 0, "", a struct of such values, a slice or
\* map without elements, a nil error
Empty(v) ==
    CASE v.k = "int"    -> v.n = 0
      [] v.k = "string" -> v.s = <<>>
      [] v.k = "struct" -> \A i \in 1..Len(v.elems) : v.elems[i].n = 0 /\ v.elems[i].s = <<>>
      [] v.k \in {"slice", "map"} -> v.elems = <<>>
      [] v.k = "error"  -> v.err.kind = "nil"

DeclaredStatus(route) ==
    IF route.RouteConfig # <<>> THEN route.RouteConfig[1].SuccessStatus ELSE 0

\* C1: validation gating - when query/body binding, path binding or
\* validation of a request to an operation with an input shape fails, serving
\* the request leaves the handler's invocation counter unchanged and the
\* response status is 400
C1_ValidationGating ==
    [][ (served' = served + 1 /\ last'.route \in 1..Len(routes)
         /\ routes[last'.route].RequestType # <<>>
         /\ Rejected(routes[last'.route].RequestType[1], last'.rq))
        => (calls' = calls /\ ~last'.called /\ last'.resp.status = 400) ]_vars

C1_Witness ==
    /\ HasInput
    /\ Rejects(LastRoute.RequestType[1], last.rq, "validate")
    /\ calls[last.route] = 0
    /\ last.resp.status = 400

\* C2: a handler returning (result, error) with a non-nil error is answered
\* with the error's status and message when it carries them, with 500 and
\* the error text otherwise, in the envelope {error, success: false} and
\* without the result
C2_FailureMapping ==
    (/\ Served /\ last.called
     /\ Len(last.results) = 2
     /\ last.results[2].k = "error" /\ last.results[2].err.kind # "nil")
    => LET err == last.results[2].err IN
       /\ last.resp.status = IF err.kind = "http" THEN err.code ELSE 500
       /\ last.resp.envelope
       /\ last.resp.body.Error = <<err.msg>>
       /\ last.resp.body.Success = FALSE
       /\ last.resp.body.Data = <<>>

C2_Witness ==
    /\ Served /\ last.called
    /\ Len(last.results) = 2
    /\ last.results[2].err.kind = "http"
    /\ ~Empty(last.results[1])
    /\ last.resp.status = 404
    /\ last.resp.body.Data = <<>>

\* C3: a handler whose only return value is an error and that returns a
\* non-nil error is answered with the error's status, or 500, and an
\* envelope whose success flag is false
C3_ErrorOnlyHandler ==
    (/\ Served /\ last.called
     /\ LastRoute.Handler.Out = <<"error">>
     /\ last.results[1].err.kind # "nil")
    => /\ last.resp.status = IF last.results[1].err.kind = "http"
                             THEN last.results[1].err.code ELSE 500
       /\ last.resp.envelope
       /\ last.resp.body.Success = FALSE

\* C4: no error and a non-empty result - the status is the declared success
\* status when it is greater than zero and 200 otherwise, the body is the
\* envelope {data: result, success: true}
C4_SuccessResponse ==
    (/\ Served /\ last.called
     /\ NoError(last.results)
     /\ ~Empty(last.results[1]))
    => /\ last.resp.status = IF DeclaredStatus(LastRoute) > 0
                             THEN DeclaredStatus(LastRoute) ELSE 200
       /\ last.resp.envelope
       /\ last.resp.body.Data = <<last.results[1]>>
       /\ last.resp.body.Success = TRUE
       /\ last.resp.body.Error = <<>>

C4_Witness ==
    /\ Served /\ last.called
    /\ NoError(last.results)
    /\ ~Empty(last.results[1])
    /\ DeclaredStatus(LastRoute) = 201
    /\ last.resp.status = 201

\* C5 as stated: no error and a result that is the zero/empty value of the
\* output shape (scalar, structure, sequence, mapping) - status 204, empty
\* body, no envelope
C5_EmptyResultNoContent ==
    (/\ Served /\ last.called
     /\ NoError(last.results)
     /\ Empty(last.results[1]))
    => /\ last.resp.status = 204
       /\ ~last.resp.envelope

\* C5 amended: no error and a result that is the zero value of the output
\* type (for a slice or map: nil) - status 204, empty body, no envelope,
\* whatever success status is declared
C5_ZeroResultNoContent ==
    (/\ Served /\ last.called
     /\ NoError(last.results)
     /\ last.results[1] = ZeroOf(LastRoute.Handler.Out[1]))
    => /\ last.resp.status = 204
       /\ ~last.resp.envelope
       /\ last.resp.body = Response(<<>>, <<>>, FALSE)

C5_Witness ==
    /\ Served /\ last.called
    /\ NoError(last.results)
    /\ last.results[1] = ZeroOf(LastRoute.Handler.Out[1])
    /\ last.results[1].k \in {"slice", "map"}
    /\ DeclaredStatus(LastRoute) > 0
    /\ last.resp.status = 204

\* C6: a query-binding, body-binding or path-binding failure and a
\* constraint violation are all answered with status 400 and an envelope
\* with success false, a non-empty error message and no data
C6_UniformBadInput ==
    \A k \in RejectKinds :
        (HasInput /\ Rejects(LastRoute.RequestType[1], last.rq, k))
        => /\ last.resp.status = 400
           /\ last.resp.envelope
           /\ last.resp.body.Success = FALSE
           /\ \E i \in 1..Len(last.resp.body.Error) : last.resp.body.Error[i] # ""
           /\ last.resp.body.Data = <<>>

C6_Witness ==
    /\ HasInput
    /\ Rejects(LastRoute.RequestType[1], last.rq, "path")
    /\ last.resp.status = 400
    /\ last.resp.body.Success = FALSE


\* the fields of the input shape of the request served last
LastFields == TypeDef(LastRoute.RequestType[1]).Fields

\* C7: binding precedence - for a POST, PUT or PATCH operation, a field
\* bound from the body and from a path variable under the same name holds
\* the path variable's value after binding, whatever the body holds
C7_PathOverridesBody ==
    (HasInput /\ ~IsRead(last.rq) /\ last.bound # <<>>)
    => \A i \in 1..Len(LastFields) :
          (/\ LastFields[i].param # <<>>
           /\ JSONKey(LastFields[i]) = <<LastFields[i].param>>
           /\ Lookup(last.rq.params, LastFields[i].param) # Absent)
          => LET raw == Lookup(last.rq.params, LastFields[i].param)[1] IN
             /\ last.bound[1].elems[i].n = Atoi(raw).v
             /\ last.called => last.args[1].elems[i].n = Atoi(raw).v

C7_Witness ==
    /\ HasInput /\ last.rq.Method = "POST" /\ last.called
    /\ last.rq.body.id = Given(JNumber(3))
    /\ last.rq.params.id = Given(<<"7">>)
    /\ last.args[1].elems[1] = IntVal(7)

\* what binding and validation make of a request
Outcome(t, rq) ==
    <<BindAndValidate(<<t>>, rq).stage, BindAndValidate(<<t>>, rq).bound>>

PathValueViolates(field, rq) ==
    /\ field.param # <<>> /\ field.validate # <<>>
    /\ Lookup(rq.params, field.param) # Absent
    /\ Convert(field.Type, Lookup(rq.params, field.param)[1], IntVal(0)).ok
    /\ ~RunRules(Convert(field.Type, Lookup(rq.params, field.param)[1], IntVal(0)).v,
                 Split(field.validate, ","))

\* C24: a request to an operation with an input shape goes through source
\* binding (query or body), path-variable binding, validation, the handler
\* and the response in this order, ending at the first step that fails;
\* validation runs only when both binding steps succeeded, and on the
\* instance as the path variables left it: a path value that violates a
\* rule of its field is answered with 400 and the handler is not called,
\* whatever the body holds for the field
C24_StepOrder ==
    HasInput =>
      LET first == IF IsRead(last.rq) THEN "query" ELSE "body" IN
      /\ last.steps \in { <<first, "respond">>,
                          <<first, "path", "respond">>,
                          <<first, "path", "validate", "respond">>,
                          <<first, "path", "validate", "call", "respond">> }
      /\ InList(last.steps, "validate") <=> last.bound # <<>>
      /\ last.bound # <<>> <=>
            ~(\E k \in {"query", "body", "path"} :
                 Rejects(LastRoute.RequestType[1], last.rq, k))
      /\ InList(last.steps, "call") <=> last.called
      /\ last.called => last.args = last.bound
      /\ \A i \in 1..Len(LastFields) :
            (last.bound # <<>> /\ PathValueViolates(LastFields[i], last.rq))
            => (~last.called /\ last.stage = "validate" /\ last.resp.status = 400)

C24_Witness ==
    /\ HasInput /\ last.rq.Method = "POST"
    /\ last.rq.body.id = Given(JNumber(3))
    /\ last.rq.params.id = Given(<<"0">>)
    /\ PathValueViolates(LastFields[1], last.rq)
    /\ last.steps = <<"body", "path", "validate", "respond">>
    /\ ~last.called /\ last.resp.status = 400
    /\ last.bound[1].elems[1] = IntVal(0)


\* how often a step occurs among the steps of a request
RECURSIVE Count(_, _)
Count(steps, x) ==
    IF steps = <<>> THEN 0
    ELSE (IF Head(steps) = x THEN 1 ELSE 0) + Count(Tail(steps), x)

\* C29: every request dispatched to a registered operation writes exactly
\* one response and enters the operation's handler at most once, whatever
\* path it takes through binding, validation, call and normalization
C29_OneResponse ==
    Served =>
        /\ Count(last.steps, "respond") = 1
        /\ Count(last.steps, "call") <= 1
        /\ \A r \in 1..Len(calls) : calls[r] <= served

(***************************************************************************)
(* Properties of registration                                              *)
(***************************************************************************)
\* C12: registering a handler value that is not a function panics at once,
\* and the failed registration leaves app.routes and Echo's route table as
\* they were; no registration ever records a value that is not a function
C12_NotAFunctionPanics ==
    [][ /\ (crashed' # crashed)
            => (crashed' /\ routes' = routes /\ router' = router)
        /\ \A i \in 1..Len(routes') : routes'[i].Handler.IsFunc
        /\ \A key \in DOMAIN router' : routes'[router'[key]].Handler.IsFunc ]_vars

C12_Witness ==
    /\ crashed
    /\ Len(routes) = 1 /\ DOMAIN router = {<<routes[1].Method, routes[1].Path>>}
    /\ served = 0

(***************************************************************************)
(* Properties of the response body                                         *)
(***************************************************************************)
\* encoding/json on Response (lines 84-89): the members of the body written
\* for a response; data and error are omitted when empty
EnvelopeKeys(resp) ==
    IF ~resp.envelope THEN {}
    ELSE {"success"}
         \cup (IF resp.body.Data # <<>> THEN {"data"} ELSE {})
         \cup (IF resp.body.Error # <<>> THEN {"error"} ELSE {})

C13_ContextFirst ==
    /\ \A i \in 1..Len(routes) :
          routes[i].Handler.In # <<>> /\ routes[i].Handler.In[1] = "echo.Context"
    /\ \A key \in DOMAIN router :
          routes[router[key]].Handler.In # <<>>

\* the place of a route in the document
DocKey(route) == <<route.Method, OpenAPIPath(route.Path)>>

\* the operation the document holds at the place of a route: <<>> or <<op>>
DocOperation(route) ==
    IF OpenAPIPath(route.Path) \in DOMAIN paths
    THEN paths[OpenAPIPath(route.Path)][route.Method]
    ELSE <<>>

\* registration i is the only one for its method and path, and the document
\* holds its operation
Documented(i) ==
    /\ \A j \in 1..Len(routes) : j # i => DocKey(routes[j]) # DocKey(routes[i])
    /\ DocOperation(routes[i]) # <<>>

DocOf(i) == DocOperation(routes[i])[1]

QueryNames(op) ==
    { op.Parameters[k].Name : k \in { j \in 1..Len(op.Parameters) : op.Parameters[j].In = "query" } }

\* the schemas the document shows for a field of an operation's input
\* shape: its property in the request body, its query parameter
DocSchemasOf(op, field) ==
    (IF op.RequestBody # <<>> /\ field.json # <<"-">>
     THEN { op.RequestBody[1].Content["application/json"].Properties[FieldName(field)] }
     ELSE {})
    \cup { op.Parameters[k].Schema :
             k \in { j \in 1..Len(op.Parameters) :
                       op.Parameters[j].In = "query" /\ op.Parameters[j].Name = field.query } }

\* a <= b for uint64 values kept as limbs
UintLE(a, b) ==
    \/ a = b
    \/ \E i \in 1..4 : a[i] < b[i] /\ \A j \in 1..(i - 1) : a[j] = b[j]

FracIsZero(f) == \A i \in 1..Len(f.frac) : f.frac[i] = "0"

\* the least integer not below, and the greatest not above, a parsed decimal
Ceil(f) ==
    IF FracIsZero(f) THEN (IF f.neg THEN 0 - f.whole ELSE f.whole)
    ELSE IF f.neg THEN 0 - f.whole ELSE f.whole + 1

Floor(f) ==
    IF FracIsZero(f) THEN (IF f.neg THEN 0 - f.whole ELSE f.whole)
    ELSE IF f.neg THEN 0 - f.whole - 1 ELSE f.whole

\* a value satisfies the bounds, enumeration and format a schema shows
Conforms(schema, v) ==
    IF v.k = "string"
    THEN /\ UintLE(schema.MinLength, Limbs(Len(v.s)))
         /\ schema.MaxLength # <<>> => UintLE(Limbs(Len(v.s)), schema.MaxLength[1])
         /\ schema.Enum # <<>> => InList(schema.Enum, v.s)
         /\ schema.Format = "email" => EmailParts(Split(v.s, "@"))
    ELSE /\ schema.Min # <<>> => v.n >= Ceil(schema.Min[1])
         /\ schema.Max # <<>> => v.n <= Floor(schema.Max[1])
         /\ schema.Enum = <<>>

IsBoundRule(rule) == rule # <<"r", "e", "q", "u", "i", "r", "e", "d">> /\ rule # <<"o", "m", "i", "t", "e", "m", "p", "t", "y">>

\* a value passes the bound, enumeration and format rules the validator
\* enforces on a field
Enforced(field, v) ==
    field.validate # <<>> =>
        RunRules(v, SelectSeq(Split(field.validate, ","), IsBoundRule))

ProbeValues(type) ==
    IF type = "int"
    THEN { IntVal(0), IntVal(1), IntVal(2), IntVal(9), IntVal(10) }
    ELSE { StrVal(<<>>), StrVal(<<"b">>), StrVal(<<"b", "o", "b">>), StrVal(<<"a", "@", "b">>) }

\* C11: one declaration, two consumers - for every field of an operation's
\* input shape, the values the validator accepts under the field's bound,
\* enumeration and format rules are the values that conform to the schema
\* the document shows for the field, as request-body property and as query
\* parameter
C11_OneDeclaration ==
    \A i \in 1..Len(routes) :
        (Documented(i) /\ routes[i].RequestType # <<>>) =>
            \A k \in 1..Len(TypeDef(routes[i].RequestType[1]).Fields) :
                LET field == TypeDef(routes[i].RequestType[1]).Fields[k] IN
                \A schema \in DocSchemasOf(DocOf(i), field) :
                    \A v \in ProbeValues(field.Type) :
                        Enforced(field, v) <=> Conforms(schema, v)

Reverse(rs) == [i \in 1..Len(rs) |-> rs[Len(rs) + 1 - i]]

\* C17: registration order is unobservable - had the registrations been
\* performed in the reverse order, every method and path would be handled by
\* the same operation and the document would hold the same operation objects
C17_OrderUnobservable ==
    /\ \A key \in DOMAIN router :
          routes[router[key]] = Reverse(routes)[RouteTableFrom(<<>>, Reverse(routes), 1)[key]]
    /\ paths = AddRoutesFrom(<<>>, routes, 1)
          => paths = AddRoutesFrom(<<>>, Reverse(routes), 1)

C20_RequestBodyByVerb ==
    \A i \in 1..Len(routes) :
        Documented(i) =>
            /\ DocOf(i).RequestBody # <<>>
                  <=> (routes[i].RequestType # <<>>
                       /\ routes[i].Method \in {"POST", "PUT", "PATCH"})
            /\ routes[i].Method \in {"POST", "PUT", "PATCH"} => QueryNames(DocOf(i)) = {}
            /\ (routes[i].Method \in {"GET", "DELETE"} /\ routes[i].RequestType # <<>>)
                  => /\ DocOf(i).RequestBody = <<>>
                     /\ QueryNames(DocOf(i)) =
                          { TypeDef(routes[i].RequestType[1]).Fields[k].query :
                              k \in 1..Len(TypeDef(routes[i].RequestType[1]).Fields) }
                          \ { <<>>, <<"-">> }

C20_Witness ==
    \E i \in 1..Len(routes) :
        /\ Documented(i) /\ routes[i].Method = "DELETE"
        /\ routes[i].RequestType = <<"ItemReq">>
        /\ DocOf(i).RequestBody = <<>>
        /\ QueryNames(DocOf(i)) = {<<"i", "d">>, <<"n", "a", "m", "e">>}

\* no two registrations share a verb and a path
DistinctKeys ==
    \A i, j \in 1..Len(routes) :
        i # j => <<routes[i].Method, routes[i].Path>> # <<routes[j].Method, routes[j].Path>>

SecurityTypes == {"bearer", "apiKey", "basic", "oauth2"}

\* C26: for every security requirement an operation declares, of type
\* bearer, apiKey, basic or oauth2, the operation in the document carries
\* one requirement entry, and the entry names exactly one security scheme
C26_SecurityRequirements ==
    \A i \in 1..Len(routes) :
        (Documented(i) /\ routes[i].RouteConfig # <<>>) =>
            LET declared == routes[i].RouteConfig[1].Security IN
            /\ Len(DocOf(i).Security) = Len(declared)
            /\ \A k \in 1..Len(declared) :
                  declared[k].Type \in SecurityTypes
                  => Cardinality(DOMAIN DocOf(i).Security[k]) = 1

C15_NoConflictingAccess ==
    \A g, h \in DOMAIN gor : ~Racing(g, h)

\* C16: requests are independent - in every interleaving, the instance a
\* request's handler is called with and the response written for the request
\* are those that binding and validating the request's own query, path and
\* body values alone give
C16_RequestsIndependent ==
    \A g \in DOMAIN gor :
        gor[g].kind = "op" =>
            LET bv == BindAndValidate(routes[gor[g].r].RequestType, gor[g].rq) IN
            /\ gor[g].pc = "call" => bv.stage = "" /\ <<heap[gor[g].slot]>> = bv.inst
            /\ gor[g].pc = "done" =>
                  IF bv.stage # ""
                  THEN ~gor[g].called /\ gor[g].resp = bv.resp
                  ELSE /\ gor[g].called /\ gor[g].args = bv.inst
                       /\ gor[g].resp = <<Normalize(gor[g].results,
                                                    routes[gor[g].r].RouteConfig)>>

C16_Witness ==
    \E g, h \in DOMAIN gor :
        /\ g # h
        /\ gor[g].kind = "op" /\ gor[g].pc = "done" /\ gor[g].called
        /\ gor[h].kind = "op" /\ gor[h].pc = "call"
        /\ gor[g].args # <<heap[gor[h].slot]>>
        /\ gor[g].resp[1].status = 201

\* C25: the registry is append-only - a registration that succeeds puts
\* exactly one RouteInfo at the end of app.routes, and no step of a request,
\* of document assembly or of a later registration changes, moves or removes
\* a RouteInfo already recorded
C25_AppendOnly ==
    [][ /\ Len(routes') \in {Len(routes), Len(routes) + 1}
        /\ \A i \in 1..Len(routes) : routes'[i] = routes[i]
        /\ (router' # router \/ Len(calls') # Len(calls))
              => Len(routes') = Len(routes) + 1 ]_vars

C25_Witness ==
    /\ Len(routes) = Len(ServedOps) + 1
    /\ \A i \in 1..Len(ServedOps) :
          routes[i] = RouteInfoOf(ServedOps[i].method, ServedOps[i].path,
                                  ServedOps[i].handler, ServedOps[i].opts)
    /\ routes[Len(routes)].Path = <<"/", "p", "i", "n", "g">>
    /\ \E g, h \in DOMAIN gor :
          /\ gor[g].kind = "op" /\ gor[g].pc = "done" /\ gor[g].called
          /\ gor[h].kind = "doc" /\ gor[h].pc = "done"
          /\ DOMAIN gor[h].resp[1].body = {<<"/", "i", "t", "e", "m", "s", "/", "{", "i", "d", "}">>}

(***************************************************************************)
(* Properties of schema derivation                                         *)
(***************************************************************************)
\* the frame-by-frame execution returns what generateSchema denotes
DeriveAgrees ==
    (dstatus = "done" /\ dtype \in AcyclicTypes) => dresult = <<generateSchema(dtype)>>

Rules(field) == IF field.validate = <<>> THEN {} ELSE
    { Split(field.validate, ",")[i] : i \in 1..Len(Split(field.validate, ",")) }

\* the options of a serialization annotation: what follows the name
JsonOptions(field) == IF field.json = <<>> THEN {} ELSE
    { Split(field.json, ",")[i] : i \in 2..Len(Split(field.json, ",")) }

\* the fields of a struct type that are serialized
SerializedFields(t) ==
    { i \in 1..Len(TypeDef(t).Fields) : TypeDef(t).Fields[i].json # <<"-">> }

\* C9: required-set correctness - a field's serialized name is in the
\* derived schema's required list if and only if the field's constraint set
\* contains the required rule and the field is not marked omit-if-empty
C9_RequiredSet ==
    (dstatus = "done" /\ TypeDef(Deref(dtype)).Kind = "Struct" /\ ~IsLeaf(Deref(dtype)))
    => \A i \in SerializedFields(Deref(dtype)) :
          LET field == TypeDef(Deref(dtype)).Fields[i] IN
          InList(dresult[1].Required, FieldName(field))
             <=> (<<"r", "e", "q", "u", "i", "r", "e", "d">> \in Rules(field) /\ <<"o", "m", "i", "t", "e", "m", "p", "t", "y">> \notin JsonOptions(field))

\* C23: schema property naming - the properties of the schema derived for a
\* struct are named by the serialized names of its serialized fields: the
\* name the json tag gives, the declared name when the tag gives none, also
\* when the tag holds the omitempty option alone
C23_PropertyNaming ==
    (dstatus = "done" /\ TypeDef(Deref(dtype)).Kind = "Struct" /\ ~IsLeaf(Deref(dtype)))
    => /\ DOMAIN dresult[1].Properties =
             { JSONKey(TypeDef(Deref(dtype)).Fields[i])[1] : i \in SerializedFields(Deref(dtype)) }
       /\ \A i \in SerializedFields(Deref(dtype)) :
             LET field == TypeDef(Deref(dtype)).Fields[i] IN
             JSONKey(field) = <<IF field.json # <<>> /\ Split(field.json, ",")[1] # <<>>
                                THEN Split(field.json, ",")[1] ELSE field.Name>>

\* the schema node of field F of Probe in the derived schema
ProbeField == TypeDef("Probe").Fields[1]

ProbeNode == dresult[1].Properties[FieldName(ProbeField)]

\* the node derived for F had its validate tag been tag
ProbeNodeWith(tag) ==
    FieldSchema([ProbeField EXCEPT !.validate = tag], generateSchema(ProbeField.Type))

\* a validate tag that is one min= or max= bound whose value is no number
UnparsedBound(tag) ==
    /\ Len(tag) > 4
    /\ SubSeq(tag, 1, 4) \in {<<"m", "i", "n", "=">>, <<"m", "a", "x", "=">>}
    /\ \A i \in 1..Len(tag) : tag[i] # ","
    /\ ~Atoi(SubSeq(tag, 5, Len(tag))).ok
    /\ ~ParseFloat(SubSeq(tag, 5, Len(tag))).ok

\* the same bound with the value 0
ZeroBound(tag) == SubSeq(tag, 1, 4) \o <<"0">>

\* Probe has been derived with an unparsed bound on F, a string or a number
UnparsedBoundDerived ==
    /\ dstatus = "done" /\ dtype = "Probe" /\ tagJSON # <<"-">>
    /\ UnparsedBound(tagValidate)
    /\ ProbeNode.Type \in {"string", "integer", "number"}

\* C27 as stated: a min= or max= bound whose value does not parse as a
\* number is dropped - the field's schema node is the node derived with no
\* bound and differs from the node derived with a bound of 0, for
\* string-length bounds and for numeric bounds
C27_UnparsedBoundDropped ==
    UnparsedBoundDerived =>
        /\ ProbeNode = ProbeNodeWith(<<>>)
        /\ ProbeNode # ProbeNodeWith(ZeroBound(tagValidate))

\* C27 as amended: the node is the node derived with no bound; it differs
\* from the node derived with a bound of 0 for numeric bounds and for the
\* string-length bound max=, and is that node for the string-length bound
\* min=, whose MinLength is an unsigned integer with 0 for no bound
C27_UnparsedBoundDroppedMinLength ==
    UnparsedBoundDerived =>
        /\ ProbeNode = ProbeNodeWith(<<>>)
        /\ IF ProbeNode.Type = "string" /\ HasPrefix(tagValidate, <<"m", "i", "n", "=">>)
           THEN ProbeNode = ProbeNodeWith(ZeroBound(tagValidate))
           ELSE ProbeNode # ProbeNodeWith(ZeroBound(tagValidate))

C27_Witness ==
    /\ UnparsedBoundDerived
    /\ tagType = "string" /\ tagValidate = <<"m", "i", "n", "=", "x">>
    /\ ProbeNode.MinLength = Uint64(0) /\ ProbeNode.MaxLength = <<>>
    /\ ProbeNodeWith(<<"m", "i", "n", "=", "0">>).MinLength = Uint64(0)
    /\ ProbeNodeWith(<<"m", "a", "x", "=", "0">>).MaxLength = <<Uint64(0)>>

\* the unsigned 64-bit value l, in limbs, is the integer n (n below Limb)
IsInteger(l, n) == l[1] = 0 /\ l[2] = 0 /\ l[3] = 0 /\ l[4] = n

\* the validations of F's validate tag (line 699)
ProbeValidations == Split(tagValidate, ",")

\* C30: string-length bound value - every string-length bound of a derived
\* schema is the integer written in the min= or max= token that produced
\* it, for every integer value of the token, negative ones included: the
\* conversion to the unsigned 64-bit length does not change the value
C30_LengthBoundValue ==
    (dstatus = "done" /\ dtype = "Probe" /\ tagJSON # <<"-">> /\ ProbeNode.Type = "string")
    => \A i \in 1..Len(ProbeValidations) :
          LET v   == ProbeValidations[i]
              val == SubSeq(v, 5, Len(v))
          IN  /\ (HasPrefix(v, <<"m", "i", "n", "=">>) /\ Atoi(val).ok)
                    => IsInteger(ProbeNode.MinLength, Atoi(val).v)
              /\ (HasPrefix(v, <<"m", "a", "x", "=">>) /\ Atoi(val).ok)
                    => /\ ProbeNode.MaxLength # <<>>
                       /\ IsInteger(ProbeNode.MaxLength[1], Atoi(val).v)

\* C10: schema derivation terminates for every input shape - no call of
\* generateSchema is nested in a call for the same type, and the goroutine
\* stack is never exhausted
C10_Terminates ==
    /\ dstatus # "overflow"
    /\ \A i, j \in 1..Len(stack) : i # j => stack[i].t # stack[j].t

\* every node of a schema: the schema, its items, its additional properties
\* and its properties, at any depth
RECURSIVE SchemaNodes(_)
SchemaNodes(s) ==
    {s}
    \cup UNION { SchemaNodes(s.Items[i]) : i \in 1..Len(s.Items) }
    \cup UNION { SchemaNodes(s.AdditionalProperties[i]) : i \in 1..Len(s.AdditionalProperties) }
    \cup UNION { SchemaNodes(s.Properties[k]) : k \in DOMAIN s.Properties }

HasLengthBound(n) == n.MinLength # Uint64(0) \/ n.MaxLength # <<>>

HasNumericBound(n) == n.Min # <<>> \/ n.Max # <<>>

\* C18: bound type-gating - in a derived schema a string-length bound is on
\* a string-typed node only and a numeric bound on an integer- or
\* number-typed node only; a node of any other type has no bound
C18_BoundTypeGating ==
    dstatus = "done" =>
      \A n \in SchemaNodes(dresult[1]) :
          /\ HasLengthBound(n) => n.Type = "string"
          /\ HasNumericBound(n) => n.Type \in {"integer", "number"}
          /\ n.Type \notin {"string", "integer", "number"}
                => ~HasLengthBound(n) /\ ~HasNumericBound(n)

C18_Witness ==
    /\ dstatus = "done" /\ dtype = "Probe"
    /\ tagType = "int" /\ tagValidate = <<"m", "i", "n", "=", "1", ",", "m", "a", "x", "=", "9">> /\ tagJSON = <<"f">>
    /\ HasNumericBound(dresult[1].Properties[<<"f">>])
    /\ ~HasLengthBound(dresult[1].Properties[<<"f">>])

(***************************************************************************)
(* Properties of query parameters                                          *)
(***************************************************************************)
\* the field carries a query-binding name
HasQueryName(field) == field.query # <<>> /\ field.query # <<"-">>

IsQueryParameter(param) == param.In = "query"

\* C28: for a GET or DELETE operation whose input shape is a struct, the
\* document lists one query parameter for each field that has a query
\* name, in field order, and none for any other field; the parameter is
\* required if and only if the required rule is among the field's rules
C28_QueryParameters ==
    \A i \in 1..Len(routes) :
        (/\ Documented(i) /\ routes[i].Method \in {"GET", "DELETE"}
         /\ routes[i].RequestType # <<>>
         /\ TypeDef(Deref(routes[i].RequestType[1])).Kind = "Struct") =>
            LET named  == SelectSeq(TypeDef(Deref(routes[i].RequestType[1])).Fields,
                                    HasQueryName)
                listed == SelectSeq(DocOf(i).Parameters, IsQueryParameter)
            IN  /\ Len(listed) = Len(named)
                /\ \A k \in 1..Len(named) :
                      /\ listed[k].Name = named[k].query
                      /\ listed[k].Required <=> <<"r", "e", "q", "u", "i", "r", "e", "d">> \in Rules(named[k])

====
